---- MODULE Spec2Model ----
(***************************************************************************)
(* Model of the pixelflut client: the Dispatch Engine (ConnectionBundle),   *)
(* its Canvas Links (connection), the stats sink (start_display), the      *)
(* playback loop of main, and the frame preprocessing of main / calc_edges. *)
(***************************************************************************)
EXTENDS Integers, Sequences, FiniteSets, TLC

(* ---------------------------------------------------------------- bounds *)
NumLinks == 2        \* config.threads of the dispatch model
MaxLen == 3          \* largest pixel-buffer length of an update
MaxRestoreLen == 1   \* largest restore-buffer length of an update
MaxUpdates == 3      \* updates main submits before the model stops it
MaxFail == 2         \* failed write attempts the network produces in a run
MaxQueue == 2        \* updates queued in the engine's channel at once
MaxStats == 1        \* Stats messages queued in the sink's channel at once
MaxConns == 4        \* largest link count of the partitioning model
MaxBuf == 9          \* largest buffer length of the partitioning model
GridMax == 2         \* largest x and y of a pixel handed to calc_edges
MaxPix == 4          \* most pixels of a buffer handed to calc_edges
FrameW == 2          \* frame.width of the decoded frames
FrameH == 2          \* frame.height of the decoded frames
MaxFrames == 3       \* most frames the decoder delivers
MaxOffset == 1       \* largest args.offset_x and args.offset_y
MaxFiltLen == 2      \* largest buffer handed to the colour filters
MaxCalls == 3        \* invocations of the colour filters in a run
MaxReply == 6        \* longest reply line the server builds from Bytes
CanvasW == 5         \* canvas_size.0 of the filter models
CanvasH == 4         \* canvas_size.1 of the filter models
SpriteW == 2         \* frame width of the sprite the Bounce filter moves
SpriteH == 2         \* frame height of the sprite the Bounce filter moves
MaxSpeed == 1        \* largest speed argument of the Bounce filter
MaxFactor == 2       \* largest factor argument of the Glitch filter
MaxSeed == 3         \* largest initial seed of the Glitch filter
MaxGlitchCalls == 9  \* invocations of the Glitch filter in a run
MaxWireLen == 4      \* largest job of the wire model
MaxWireFail == 1     \* failed writes of the wire model

Links == 0 .. (NumLinks - 1)

None == [kind |-> "none", upd |-> 0, len |-> 0]

(* ------------------------------------------------- striped partitioning *)
\* mutant of NumPx: the remainder test off by one
NumPx_OffByOne(L, num_conns, conn_id) ==
    (L \div num_conns) + (IF (L % num_conns) >= conn_id THEN 1 ELSE 0)

\* conn.rs 27-31: number of pixels link conn_id writes of a buffer of len L
NumPx(L, num_conns, conn_id) ==
    (L \div num_conns) + (IF (L % num_conns) > conn_id THEN 1 ELSE 0)

\* conn.rs 34: buffer index of the i-th pixel of link conn_id
Idx(i, num_conns, conn_id) == (i * num_conns) + conn_id

RECURSIVE SumSeq(_)
SumSeq(s) == IF s = <<>> THEN 0 ELSE Head(s) + SumSeq(Tail(s))

(* ----------------------------------------------------------- the state *)
VARIABLES
    restoreMode,  \* args.restore
    mainPc,       \* main: "run" | "exited"
    submitted,    \* main: number of updates submitted so far
    mpsc_rx,      \* ConnectionBundle: queue of Job::UpdateBuffer
    engine,       \* the engine task's locals and position
    conn_rx,      \* per link: queue of (buffer, oneshot_tx) jobs
    link,         \* per link: the link task's locals and position
    oneshot,      \* per link: the oneshot channel of the cycle in flight
    stats_rx,     \* start_display: queue of Stats
    errors,       \* start_display: cumulative error counter
    nfail,        \* history: failed write attempts so far in the run
    wfail,        \* history: per link, failed write attempts of the job it holds
    written,      \* history: per link, buffer indices written (Ok) of the job it holds
    cycFail,      \* history: failed write attempts since the cycle in flight started
    cyc,          \* history: jobs sent to / replies made by each link in the cycle in flight
    doneFailed,   \* history: failed write attempts of all completed cycles
    log,          \* history: buffers of the completed draw cycles
    part,         \* one link task working through one job (striped partitioning)
    edge,         \* one call of calc_edges
    pre,          \* main's frame loading and restore preprocessing
    hs,           \* one call of fetch_canvas_size
    flt,          \* a Blend and a Rainbow filter and the buffers they transform
    bnc,          \* a Bounce filter and the buffers it transforms
    gl,           \* a Glitch filter and the buffers it transforms
    sch,          \* main's playback loop over the preprocessed frames
    wire          \* one link task, its connection and the bytes the connection accepted

vars == << restoreMode, mainPc, submitted, mpsc_rx, engine, conn_rx, link,
           oneshot, stats_rx, errors, nfail, wfail, written, cycFail, cyc,
           doneFailed, log, part, edge, pre, hs, flt, bnc, gl, sch, wire >>

auxVars == << hs, flt, bnc, gl, sch, wire >>
envVars == << restoreMode, part, edge, pre, auxVars >>
histVars == << nfail, wfail, written, cycFail, cyc, doneFailed, log >>

Running == mainPc /= "exited"

\* the buffer and the restore buffer main submits as update k (main.rs 364-369)
BufferOf(k, len) == [kind |-> "buffer", upd |-> k, len |-> len]
RestoreOf(k, rlen) ==
    IF restoreMode THEN [kind |-> "restore", upd |-> k, len |-> rlen] ELSE None

\* a oneshot channel: "none" | "open" | "sent" (val) | "dropped" (sender gone) |
\* "closed" (receiver gone)
Chan(st, val) == [st |-> st, val |-> val]

\* a link task outside the body of its loop: no job, no locals
Task(pc) == [pc |-> pc, job |-> None, errors |-> 0, num_px |-> 0, i |-> 0]

NoCycle == [sent |-> [c \in Links |-> 0], replied |-> [c \in Links |-> 0], rsum |-> 0]

\* the tasks right after ConnectionBundle::new returned to main
MainInit ==
    /\ mainPc = "run"
    /\ submitted = 0
    /\ mpsc_rx = <<>>
    /\ engine = [pc |-> "loop", buffer |-> [kind |-> "buffer", upd |-> 0, len |-> 0],
                 restore |-> None, new_buffer |-> None, new_restore |-> None,
                 cur |-> None, next |-> 0, set |-> {}, stats |-> 0]
    /\ conn_rx = [c \in Links |-> <<>>]
    /\ link = [c \in Links |-> Task("connect")]
    /\ oneshot = [c \in Links |-> Chan("none", 0)]
    /\ stats_rx = <<>>
    /\ errors = 0
    /\ nfail = 0
    /\ wfail = [c \in Links |-> 0]
    /\ written = [c \in Links |-> <<>>]
    /\ cycFail = 0
    /\ cyc = NoCycle
    /\ doneFailed = 0
    /\ log = <<>>

NoPart == [pc |-> "off"]
NoEdge == [pc |-> "off"]
NoPre == [pc |-> "off"]
NoAux == hs = [pc |-> "off"] /\ flt = [pc |-> "off"] /\ bnc = [pc |-> "off"]
         /\ gl = [pc |-> "off"] /\ sch = [pc |-> "off"] /\ wire = [pc |-> "off"]

Init ==
    /\ restoreMode \in BOOLEAN
    /\ MainInit
    /\ part = NoPart /\ edge = NoEdge /\ pre = NoPre /\ NoAux

(* ------------------------------------------------------ panics and drops *)
\* a panicking link task drops its receiver, and with it every queued job and
\* the oneshot sender of the job it holds (conn.rs 20, 24, 56, 62: unwrap)
LinkPanic(c) ==
    /\ link' = [link EXCEPT ![c] = Task("dead")]
    /\ conn_rx' = [conn_rx EXCEPT ![c] = <<>>]
    /\ oneshot' = [oneshot EXCEPT ![c] = IF @.st = "open" THEN Chan("dropped", 0) ELSE @]

\* mutant of EnginePanic: the engine gives the cycle up and goes on with its loop
EnginePanic_GoOn ==
    /\ engine' = [engine EXCEPT !.pc = "loop", !.set = {}, !.next = 0, !.stats = 0]
    /\ oneshot' = [c \in Links |-> IF oneshot[c].st = "open" THEN Chan("closed", 0)
                                  ELSE oneshot[c]]

\* a panicking engine task drops its JoinSet (the oneshot receivers), its
\* link senders and its update receiver (conn.rs 110-124: unwrap)
EnginePanic ==
    /\ engine' = [engine EXCEPT !.pc = "dead", !.set = {}, !.next = 0, !.stats = 0]
    /\ oneshot' = [c \in Links |-> IF oneshot[c].st = "open" THEN Chan("closed", 0)
                                  ELSE oneshot[c]]

(* ------------------------------------------------------ the engine task *)
\* entering draw(connections, b, stats_tx): conn.rs 142
StartDraw(e, b) == [e EXCEPT !.pc = "send", !.cur = b, !.next = 0, !.set = {}, !.stats = 0]

\* mutant of EngineLoop: wait only while no buffer has ever been set
EngineLoop_EverSet ==
    /\ Running /\ engine.pc = "loop"
    /\ IF mpsc_rx /= <<>> \/ engine.buffer.upd = 0
       THEN /\ engine' = [engine EXCEPT !.pc = "recv"]
            /\ cyc' = cyc
       ELSE /\ engine' = StartDraw(engine, engine.buffer)
            /\ cyc' = NoCycle
    /\ UNCHANGED << envVars, mainPc, submitted, mpsc_rx, conn_rx, link, oneshot,
                    stats_rx, errors, nfail, wfail, written, cycFail, doneFailed, log >>

\* mutant of EngineLoop: wait for an update at the top of every iteration
EngineLoop_AlwaysRecv ==
    /\ Running /\ engine.pc = "loop"
    /\ engine' = [engine EXCEPT !.pc = "recv"]
    /\ cyc' = cyc
    /\ UNCHANGED << envVars, mainPc, submitted, mpsc_rx, conn_rx, link, oneshot,
                    stats_rx, errors, nfail, wfail, written, cycFail, doneFailed, log >>

\* conn.rs 103: the test at the top of the loop, and line 122 when it is false
EngineLoop ==
    /\ Running /\ engine.pc = "loop"
    /\ IF mpsc_rx /= <<>> \/ engine.buffer.len = 0
       THEN /\ engine' = [engine EXCEPT !.pc = "recv"]
            /\ cyc' = cyc
       ELSE /\ engine' = StartDraw(engine, engine.buffer)
            /\ cyc' = NoCycle
    /\ UNCHANGED << envVars, mainPc, submitted, mpsc_rx, conn_rx, link, oneshot,
                    stats_rx, errors, nfail, wfail, written, cycFail, doneFailed, log >>

\* mutant of EngineRecv: take the newest queued update and discard the older ones
EngineRecv_Latest ==
    /\ Running /\ engine.pc = "recv" /\ mpsc_rx /= <<>>
    /\ LET job == mpsc_rx[Len(mpsc_rx)] IN
         /\ mpsc_rx' = <<>>
         /\ IF engine.restore /= None
            THEN engine' = StartDraw([engine EXCEPT !.new_buffer = job.buffer,
                                                    !.new_restore = job.restore],
                                     engine.restore)
            ELSE engine' = StartDraw([engine EXCEPT !.restore = job.restore,
                                                    !.buffer = job.buffer],
                                     job.buffer)
    /\ cyc' = NoCycle
    /\ UNCHANGED << envVars, mainPc, submitted, conn_rx, link, oneshot,
                    stats_rx, errors, nfail, wfail, written, cycFail, doneFailed, log >>

\* mutant of EngineRecv: swap in the new buffer without drawing the held restore
EngineRecv_NoRestore ==
    /\ Running /\ engine.pc = "recv" /\ mpsc_rx /= <<>>
    /\ LET job == Head(mpsc_rx) IN
         /\ mpsc_rx' = Tail(mpsc_rx)
         /\ engine' = StartDraw([engine EXCEPT !.restore = job.restore,
                                               !.buffer = job.buffer],
                                job.buffer)
    /\ cyc' = NoCycle
    /\ UNCHANGED << envVars, mainPc, submitted, conn_rx, link, oneshot,
                    stats_rx, errors, nfail, wfail, written, cycFail, doneFailed, log >>

\* conn.rs 104-118: consume one update; draw the held restore buffer first
EngineRecv ==
    /\ Running /\ engine.pc = "recv" /\ mpsc_rx /= <<>>
    /\ LET job == Head(mpsc_rx) IN
         /\ mpsc_rx' = Tail(mpsc_rx)
         /\ IF engine.restore /= None
            THEN engine' = StartDraw([engine EXCEPT !.new_buffer = job.buffer,
                                                    !.new_restore = job.restore],
                                     engine.restore)
            ELSE engine' = StartDraw([engine EXCEPT !.restore = job.restore,
                                                    !.buffer = job.buffer],
                                     job.buffer)
    /\ cyc' = NoCycle
    /\ UNCHANGED << envVars, mainPc, submitted, conn_rx, link, oneshot,
                    stats_rx, errors, nfail, wfail, written, cycFail, doneFailed, log >>

\* conn.rs 143-147: hand the buffer and a fresh oneshot sender to the next link
DrawSend ==
    /\ Running /\ engine.pc = "send"
    /\ LET c == engine.next IN
         /\ link[c].pc /= "dead"
         /\ conn_rx' = [conn_rx EXCEPT ![c] = Append(@, engine.cur)]
         /\ oneshot' = [oneshot EXCEPT ![c] = Chan("open", 0)]
         /\ cyc' = [cyc EXCEPT !.sent[c] = @ + 1]
         /\ engine' = [engine EXCEPT !.next = c + 1,
                                     !.set = @ \cup {c},
                                     !.pc = IF c + 1 = NumLinks THEN "join" ELSE "send"]
    /\ UNCHANGED << envVars, mainPc, submitted, mpsc_rx, link,
                    stats_rx, errors, nfail, wfail, written, cycFail, doneFailed, log >>

\* conn.rs 145: conn.send fails when the link's receiver is gone; draw returns
\* the error and the caller's unwrap panics
DrawSendErr ==
    /\ Running /\ engine.pc = "send"
    /\ link[engine.next].pc = "dead"
    /\ EnginePanic
    /\ UNCHANGED << envVars, mainPc, submitted, mpsc_rx, conn_rx, link,
                    stats_rx, errors, histVars >>

\* mutant of DrawJoin: keep the last reply instead of adding it up
DrawJoin_Overwrite(c) ==
    /\ Running /\ engine.pc = "join" /\ c \in engine.set
    /\ oneshot[c].st = "sent"
    /\ engine' = [engine EXCEPT !.stats = oneshot[c].val, !.set = @ \ {c}]
    /\ oneshot' = [oneshot EXCEPT ![c] = Chan("none", 0)]
    /\ UNCHANGED << envVars, mainPc, submitted, mpsc_rx, conn_rx, link,
                    stats_rx, errors, histVars >>

\* conn.rs 150-151: join_next yields a link's reply; add it to stats.errors
DrawJoin(c) ==
    /\ Running /\ engine.pc = "join" /\ c \in engine.set
    /\ oneshot[c].st = "sent"
    /\ engine' = [engine EXCEPT !.stats = @ + oneshot[c].val, !.set = @ \ {c}]
    /\ oneshot' = [oneshot EXCEPT ![c] = Chan("none", 0)]
    /\ UNCHANGED << envVars, mainPc, submitted, mpsc_rx, conn_rx, link,
                    stats_rx, errors, histVars >>

\* conn.rs 151: res?? fails when the link dropped its oneshot sender
DrawJoinErr(c) ==
    /\ Running /\ engine.pc = "join" /\ c \in engine.set
    /\ oneshot[c].st = "dropped"
    /\ EnginePanic
    /\ UNCHANGED << envVars, mainPc, submitted, mpsc_rx, conn_rx, link,
                    stats_rx, errors, histVars >>

\* the completed cycles' buffers; a redraw of the same pixel buffer is not repeated
Logged(b) ==
    LET e == [kind |-> b.kind, upd |-> b.upd] IN
    IF log /= <<>> /\ log[Len(log)] = e /\ e.kind = "buffer" THEN log ELSE Append(log, e)

\* mutant of DrawDone: forward the Stats without waiting for the links' replies
DrawDone_Early ==
    /\ Running /\ engine.pc = "join"
    /\ Len(stats_rx) < MaxStats
    /\ stats_rx' = Append(stats_rx, engine.stats)
    /\ doneFailed' = doneFailed + cycFail
    /\ log' = Logged(engine.cur)
    /\ IF engine.cur.kind = "restore"
       THEN engine' = StartDraw([engine EXCEPT !.restore = engine.new_restore,
                                               !.buffer = engine.new_buffer,
                                               !.new_buffer = None,
                                               !.new_restore = None],
                                engine.new_buffer)
       ELSE engine' = [engine EXCEPT !.pc = "loop", !.cur = None, !.next = 0, !.stats = 0]
    /\ cyc' = NoCycle
    /\ cycFail' = 0
    /\ UNCHANGED << envVars, mainPc, submitted, mpsc_rx, conn_rx, link, oneshot,
                    errors, nfail, wfail, written >>

\* conn.rs 153, then back in the loop: 114-122 after a restore cycle, 102
\* after a cycle of the current buffer
DrawDone ==
    /\ Running /\ engine.pc = "join" /\ engine.set = {}
    /\ Len(stats_rx) < MaxStats
    /\ stats_rx' = Append(stats_rx, engine.stats)
    /\ doneFailed' = doneFailed + cycFail
    /\ log' = Logged(engine.cur)
    /\ IF engine.cur.kind = "restore"
       THEN engine' = StartDraw([engine EXCEPT !.restore = engine.new_restore,
                                               !.buffer = engine.new_buffer,
                                               !.new_buffer = None,
                                               !.new_restore = None],
                                engine.new_buffer)
       ELSE engine' = [engine EXCEPT !.pc = "loop", !.cur = None, !.next = 0, !.stats = 0]
    /\ cyc' = NoCycle
    /\ cycFail' = 0
    /\ UNCHANGED << envVars, mainPc, submitted, mpsc_rx, conn_rx, link, oneshot,
                    errors, nfail, wfail, written >>

(* -------------------------------------------------------- the link tasks *)
\* conn.rs 20: the link's initial connection
LinkConnect(c) ==
    /\ Running /\ link[c].pc = "connect"
    /\ link' = [link EXCEPT ![c].pc = "recv"]
    /\ UNCHANGED << envVars, mainPc, submitted, mpsc_rx, engine, conn_rx, oneshot,
                    stats_rx, errors, histVars >>

\* conn.rs 20: connect(..).await.unwrap() on a refused connection
LinkConnectFail(c) ==
    /\ Running /\ link[c].pc = "connect"
    /\ LinkPanic(c)
    /\ UNCHANGED << envVars, mainPc, submitted, mpsc_rx, engine,
                    stats_rx, errors, histVars >>

\* conn.rs 23-31: take a job; errors = 0; compute num_px
LinkRecv(c) ==
    /\ Running /\ link[c].pc = "recv" /\ conn_rx[c] /= <<>>
    /\ LET job == Head(conn_rx[c]) IN
         link' = [link EXCEPT ![c] = [pc |-> "write", job |-> job, errors |-> 0,
                                      num_px |-> NumPx(job.len, NumLinks, c), i |-> 0]]
    /\ conn_rx' = [conn_rx EXCEPT ![c] = Tail(@)]
    /\ UNCHANGED << envVars, mainPc, submitted, mpsc_rx, engine, oneshot,
                    stats_rx, errors, histVars >>

\* conn.rs 24: rx.recv() yields None once the engine dropped the sender
LinkRecvClosed(c) ==
    /\ Running /\ link[c].pc = "recv" /\ conn_rx[c] = <<>>
    /\ engine.pc = "dead"
    /\ LinkPanic(c)
    /\ UNCHANGED << envVars, mainPc, submitted, mpsc_rx, engine,
                    stats_rx, errors, histVars >>

\* conn.rs 52, 58: write returns Ok(_); go on to the next pixel
LinkWriteOk(c) ==
    /\ Running /\ link[c].pc = "write" /\ link[c].i < link[c].num_px
    /\ link' = [link EXCEPT ![c].i = @ + 1]
    /\ written' = [written EXCEPT ![c] = Append(@, Idx(link[c].i, NumLinks, c))]
    /\ UNCHANGED << envVars, mainPc, submitted, mpsc_rx, engine, conn_rx, oneshot,
                    stats_rx, errors, nfail, wfail, cycFail, cyc, doneFailed, log >>

\* mutant of LinkWriteErr: reconnect without counting the failed attempt
LinkWriteErr_NoCount(c) ==
    /\ Running /\ link[c].pc = "write" /\ link[c].i < link[c].num_px
    /\ nfail < MaxFail
    /\ link' = [link EXCEPT ![c].pc = "reconnect"]
    /\ nfail' = nfail + 1
    /\ wfail' = [wfail EXCEPT ![c] = @ + 1]
    /\ cycFail' = cycFail + 1
    /\ UNCHANGED << envVars, mainPc, submitted, mpsc_rx, engine, conn_rx, oneshot,
                    stats_rx, errors, written, cyc, doneFailed, log >>

\* conn.rs 53-55: write returns Err; count it, then reconnect
LinkWriteErr(c) ==
    /\ Running /\ link[c].pc = "write" /\ link[c].i < link[c].num_px
    /\ nfail < MaxFail
    /\ link' = [link EXCEPT ![c].errors = @ + 1, ![c].pc = "reconnect"]
    /\ nfail' = nfail + 1
    /\ wfail' = [wfail EXCEPT ![c] = @ + 1]
    /\ cycFail' = cycFail + 1
    /\ UNCHANGED << envVars, mainPc, submitted, mpsc_rx, engine, conn_rx, oneshot,
                    stats_rx, errors, written, cyc, doneFailed, log >>

\* conn.rs 56: the new connection replaces the broken one; retry the same command
LinkReconnect(c) ==
    /\ Running /\ link[c].pc = "reconnect"
    /\ link' = [link EXCEPT ![c].pc = "write"]
    /\ UNCHANGED << envVars, mainPc, submitted, mpsc_rx, engine, conn_rx, oneshot,
                    stats_rx, errors, histVars >>

\* conn.rs 56: connect(..).await.unwrap() on a refused reconnection
LinkReconnectFail(c) ==
    /\ Running /\ link[c].pc = "reconnect"
    /\ LinkPanic(c)
    /\ UNCHANGED << envVars, mainPc, submitted, mpsc_rx, engine,
                    stats_rx, errors, histVars >>

\* conn.rs 62: the for loop is over; send the cycle's error count
LinkReply(c) ==
    /\ Running /\ link[c].pc = "write" /\ link[c].i >= link[c].num_px
    /\ oneshot[c].st = "open"
    /\ oneshot' = [oneshot EXCEPT ![c] = Chan("sent", link[c].errors)]
    /\ link' = [link EXCEPT ![c] = Task("recv")]
    /\ cyc' = [cyc EXCEPT !.replied[c] = @ + 1, !.rsum = @ + link[c].errors]
    /\ wfail' = [wfail EXCEPT ![c] = 0]
    /\ written' = [written EXCEPT ![c] = <<>>]
    /\ UNCHANGED << envVars, mainPc, submitted, mpsc_rx, engine, conn_rx,
                    stats_rx, errors, nfail, cycFail, doneFailed, log >>

\* conn.rs 62: oneshot_tx.send(errors).unwrap() when the receiver is gone
LinkReplyErr(c) ==
    /\ Running /\ link[c].pc = "write" /\ link[c].i >= link[c].num_px
    /\ oneshot[c].st = "closed"
    /\ LinkPanic(c)
    /\ UNCHANGED << envVars, mainPc, submitted, mpsc_rx, engine,
                    stats_rx, errors, histVars >>

(* ------------------------------------------------- main and the stats sink *)
\* mutant of update_buffer: hand the update over only to an engine that waits
update_buffer_rendezvous(len, rlen) ==
    /\ mainPc = "run" /\ submitted < MaxUpdates /\ Len(mpsc_rx) < MaxQueue
    /\ engine.pc \in {"loop", "recv"}
    /\ mpsc_rx' = Append(mpsc_rx, [buffer |-> BufferOf(submitted + 1, len),
                                   restore |-> RestoreOf(submitted + 1, rlen)])
    /\ submitted' = submitted + 1
    /\ UNCHANGED << envVars, mainPc, engine, conn_rx, link, oneshot,
                    stats_rx, errors, histVars >>

\* conn.rs 131-135 called from main.rs 364-374: enqueue update k and return
update_buffer(len, rlen) ==
    /\ mainPc = "run" /\ submitted < MaxUpdates /\ Len(mpsc_rx) < MaxQueue
    /\ engine.pc /= "dead"
    /\ mpsc_rx' = Append(mpsc_rx, [buffer |-> BufferOf(submitted + 1, len),
                                   restore |-> RestoreOf(submitted + 1, rlen)])
    /\ submitted' = submitted + 1
    /\ UNCHANGED << envVars, mainPc, engine, conn_rx, link, oneshot,
                    stats_rx, errors, histVars >>

\* conn.rs 132, main.rs 374: the send fails once the engine task is gone, and
\* main returns the error: the process ends
update_buffer_err ==
    /\ mainPc = "run"
    /\ engine.pc = "dead"
    /\ mainPc' = "exited"
    /\ UNCHANGED << envVars, submitted, mpsc_rx, engine, conn_rx, link, oneshot,
                    stats_rx, errors, histVars >>

\* main.rs 39-41: the sink adds a cycle's error count to its counter
start_display ==
    /\ Running /\ stats_rx /= <<>>
    /\ errors' = errors + Head(stats_rx)
    /\ stats_rx' = Tail(stats_rx)
    /\ UNCHANGED << envVars, mainPc, submitted, mpsc_rx, engine, conn_rx, link, oneshot,
                    histVars >>

Next ==
    \/ EngineLoop
    \/ EngineRecv
    \/ DrawSend
    \/ DrawSendErr
    \/ \E c \in Links : DrawJoin(c)
    \/ \E c \in Links : DrawJoinErr(c)
    \/ DrawDone
    \/ \E c \in Links : LinkConnect(c)
    \/ \E c \in Links : LinkConnectFail(c)
    \/ \E c \in Links : LinkRecv(c)
    \/ \E c \in Links : LinkRecvClosed(c)
    \/ \E c \in Links : LinkWriteOk(c)
    \/ \E c \in Links : LinkWriteErr(c)
    \/ \E c \in Links : LinkReconnect(c)
    \/ \E c \in Links : LinkReconnectFail(c)
    \/ \E c \in Links : LinkReply(c)
    \/ \E c \in Links : LinkReplyErr(c)
    \/ \E len \in 0 .. MaxLen, rlen \in 0 .. MaxRestoreLen : update_buffer(len, rlen)
    \/ update_buffer_err
    \/ start_display

Spec == Init /\ [][Next]_vars

(* ------------------------------------------ fair runs without lost links *)
\* the steps of a run in which every connection attempt succeeds
FairNext ==
    \/ EngineLoop
    \/ EngineRecv
    \/ DrawSend
    \/ \E c \in Links : DrawJoin(c)
    \/ DrawDone
    \/ \E c \in Links : LinkConnect(c)
    \/ \E c \in Links : LinkRecv(c)
    \/ \E c \in Links : LinkWriteOk(c)
    \/ \E c \in Links : LinkWriteErr(c)
    \/ \E c \in Links : LinkReconnect(c)
    \/ \E c \in Links : LinkReply(c)
    \/ \E len \in 0 .. MaxLen, rlen \in 0 .. MaxRestoreLen : update_buffer(len, rlen)
    \/ start_display

\* the tokio runtime runs every task that can run; a write eventually succeeds
FairSpec ==
    /\ Init /\ [][FairNext]_vars
    /\ WF_vars(EngineLoop) /\ WF_vars(EngineRecv) /\ WF_vars(DrawSend) /\ WF_vars(DrawDone)
    /\ WF_vars(start_display)
    /\ \A c \in Links :
         /\ WF_vars(DrawJoin(c)) /\ WF_vars(LinkConnect(c)) /\ WF_vars(LinkRecv(c))
         /\ WF_vars(LinkWriteOk(c)) /\ WF_vars(LinkReconnect(c)) /\ WF_vars(LinkReply(c))

(* ------------------------------- one job through the links' for loops *)
\* a draw cycle of a buffer of length len over num_conns links, the links taken
\* one after the other; handled[idx + 1] lists the links that indexed buffer[idx]
PartInit ==
    /\ restoreMode = FALSE /\ MainInit
    /\ edge = NoEdge /\ pre = NoPre /\ NoAux
    /\ part \in { [pc |-> "recv", num_conns |-> n, len |-> L, conn_id |-> 0, num_px |-> 0,
                   i |-> 0, handled |-> [k \in 1 .. L |-> <<>>], oob |-> FALSE] :
                  n \in 1 .. MaxConns, L \in 0 .. MaxBuf }

mainVars == << restoreMode, mainPc, submitted, mpsc_rx, engine, conn_rx, link,
               oneshot, stats_rx, errors, histVars >>

\* conn.rs 23-31: the link takes the job and computes num_px
PartRecv ==
    /\ part.pc = "recv"
    /\ part' = [part EXCEPT !.pc = "for", !.i = 0,
                            !.num_px = NumPx(part.len, part.num_conns, part.conn_id)]
    /\ UNCHANGED << mainVars, edge, pre, auxVars >>

\* conn.rs 33-40: one iteration of the for loop; buffer[idx] panics past the end
PartIndex ==
    /\ part.pc = "for" /\ part.i < part.num_px
    /\ LET idx == Idx(part.i, part.num_conns, part.conn_id) IN
         IF idx < part.len
         THEN part' = [part EXCEPT !.handled[idx + 1] = Append(@, part.conn_id),
                                   !.i = @ + 1]
         ELSE part' = [part EXCEPT !.oob = TRUE, !.pc = "panic"]
    /\ UNCHANGED << mainVars, edge, pre, auxVars >>

\* conn.rs 62: the shard is done; the next link's turn
PartReply ==
    /\ part.pc = "for" /\ part.i >= part.num_px
    /\ IF part.conn_id + 1 < part.num_conns
       THEN part' = [part EXCEPT !.pc = "recv", !.conn_id = @ + 1, !.i = 0, !.num_px = 0]
       ELSE part' = [part EXCEPT !.pc = "done"]
    /\ UNCHANGED << mainVars, edge, pre, auxVars >>

PartNext == PartRecv \/ PartIndex \/ PartReply

PartSpec == PartInit /\ [][PartNext]_vars

(* ------------------------------------------------------ edges.rs, calc_edges *)
\* edges.rs 3-8: the Edge discriminants
EdgeTop == 1
EdgeRight == 2
EdgeBottom == 4
EdgeLeft == 8

RECURSIVE BitOr(_, _)
BitOr(a, b) ==
    IF a = 0 THEN b
    ELSE IF b = 0 THEN a
    ELSE (IF a % 2 = 1 \/ b % 2 = 1 THEN 1 ELSE 0) + (2 * BitOr(a \div 2, b \div 2))

RECURSIVE BitAnd(_, _)
BitAnd(a, b) ==
    IF a = 0 \/ b = 0 THEN 0
    ELSE (IF a % 2 = 1 /\ b % 2 = 1 THEN 1 ELSE 0) + (2 * BitAnd(a \div 2, b \div 2))

\* edges.rs 14-21: Edges::new ors the discriminants into a u8
RECURSIVE EdgesNew(_)
EdgesNew(edges) ==
    IF edges = <<>> THEN 0 ELSE BitOr(Head(edges), EdgesNew(Tail(edges)))

\* edges.rs 23-25: Edges::has_edge
has_edge(e, flag) == BitAnd(e, flag) > 0

SeqMax(S) == IF S = {} THEN 0 ELSE CHOOSE m \in S : \A o \in S : o <= m

\* main.rs 88-101: area.size_x, area.size_y are the largest x and y of the buffer
AreaSizeX(buffer) == SeqMax({ buffer[i].x : i \in 1 .. Len(buffer) })
AreaSizeY(buffer) == SeqMax({ buffer[i].y : i \in 1 .. Len(buffer) })

\* main.rs 103-107: temp[x][y] is the index of the last pixel at (x, y); 0 is None
Temp(buffer, x, y) ==
    SeqMax({ i \in 1 .. Len(buffer) : buffer[i].x = x /\ buffer[i].y = y })

\* mutant of EdgeList: the neighbour rows of Top and Bottom swapped
EdgeList_Swapped(buffer, x, y) ==
    (IF y = AreaSizeY(buffer) \/ Temp(buffer, x, y + 1) = 0 THEN << EdgeTop >> ELSE <<>>)
    \o (IF x = AreaSizeX(buffer) \/ Temp(buffer, x + 1, y) = 0 THEN << EdgeRight >> ELSE <<>>)
    \o (IF y = 0 \/ Temp(buffer, x, y - 1) = 0 THEN << EdgeBottom >> ELSE <<>>)
    \o (IF x = 0 \/ Temp(buffer, x - 1, y) = 0 THEN << EdgeLeft >> ELSE <<>>)

\* main.rs 113-129: the edges pushed for the cell (x, y)
EdgeList(buffer, x, y) ==
    (IF y = 0 \/ Temp(buffer, x, y - 1) = 0 THEN << EdgeTop >> ELSE <<>>)
    \o (IF x = AreaSizeX(buffer) \/ Temp(buffer, x + 1, y) = 0 THEN << EdgeRight >> ELSE <<>>)
    \o (IF y = AreaSizeY(buffer) \/ Temp(buffer, x, y + 1) = 0 THEN << EdgeBottom >> ELSE <<>>)
    \o (IF x = 0 \/ Temp(buffer, x - 1, y) = 0 THEN << EdgeLeft >> ELSE <<>>)

\* main.rs 87-137: every pixel temp refers to gets its edges; the others keep theirs
CalcEdges(buffer) ==
    [i \in 1 .. Len(buffer) |->
        IF Temp(buffer, buffer[i].x, buffer[i].y) = i
        THEN [buffer[i] EXCEPT !.edges = EdgesNew(EdgeList(buffer, buffer[i].x, buffer[i].y))]
        ELSE buffer[i]]

\* main.rs 247-252: an opaque source pixel, Edges::default()
SrcPixel(x, y, alpha) == [x |-> x, y |-> y, value |-> << 255, 255, 255, alpha >>, edges |-> 0]

Coords == (0 .. GridMax) \X (0 .. GridMax)

\* the buffers of at most MaxPix pixels at pairwise different coordinates, in any order
EdgeInputs ==
    { [i \in 1 .. Len(cs) |-> SrcPixel(cs[i][1], cs[i][2], 255)] :
        cs \in { f \in UNION { [1 .. n -> Coords] : n \in 0 .. MaxPix } :
                   \A i, j \in DOMAIN f : i /= j => f[i] /= f[j] } }

EdgeInit ==
    /\ restoreMode = FALSE /\ MainInit
    /\ part = NoPart /\ pre = NoPre /\ NoAux
    /\ edge \in { [pc |-> "call", input |-> b, buffer |-> b] : b \in EdgeInputs }

\* main.rs 257: calc_edges(&mut frame_vec)
calc_edges ==
    /\ edge.pc = "call"
    /\ edge' = [edge EXCEPT !.pc = "done", !.buffer = CalcEdges(edge.buffer)]
    /\ UNCHANGED << mainVars, part, pre, auxVars >>

EdgeSpec == EdgeInit /\ [][calc_edges]_vars

(* --------------------------------- main: frame loading and restore diff *)
\* main.rs 31
RESTORE_DEBUG_COLOR == << 0, 0, 0, 255 >>

\* a decoded frame: the alpha of its FrameW * FrameH pixels, row-major
RawFrames == [0 .. ((FrameW * FrameH) - 1) -> {0, 255}]

\* main.rs 242-255: the pixels and the lookup of the first n source pixels
RECURSIVE Decode(_, _, _, _)
Decode(raw, ox, oy, n) ==
    IF n = 0 THEN [vec |-> <<>>, lookup |-> << >>]
    ELSE LET prev == Decode(raw, ox, oy, n - 1)
             i == n - 1
             x == (i % FrameW) + ox
             y == (i \div FrameW) + oy
         IN IF raw[i] /= 0
            THEN [vec |-> Append(prev.vec, SrcPixel(x, y, raw[i])),
                  lookup |-> [k \in (DOMAIN prev.lookup) \cup { << x, y >> } |->
                                 IF k = << x, y >> THEN Len(prev.vec)
                                 ELSE prev.lookup[k]]]
            ELSE prev

\* main.rs 232-258: one OutputFrame event
LoadFrame(raw, ox, oy) ==
    LET d == Decode(raw, ox, oy, FrameW * FrameH) IN
    [data |-> CalcEdges(d.vec), restore |-> <<>>, lookup |-> d.lookup]

\* mutant of RestoreMarkers: the lookup test inverted
RECURSIVE RestoreMarkers_Inverted(_, _)
RestoreMarkers_Inverted(buf, next) ==
    IF buf = <<>> THEN <<>>
    ELSE LET px == Head(buf) IN
         (IF px.value[4] = 0 \/ << px.x, px.y >> \notin DOMAIN next.lookup
          THEN <<>>
          ELSE << [x |-> px.x, y |-> px.y, value |-> RESTORE_DEBUG_COLOR, edges |-> 0] >>)
         \o RestoreMarkers_Inverted(Tail(buf), next)

\* main.rs 282-293: the markers pushed for the pixels of buf that next lacks
RECURSIVE RestoreMarkers(_, _)
RestoreMarkers(buf, next) ==
    IF buf = <<>> THEN <<>>
    ELSE LET px == Head(buf) IN
         (IF px.value[4] = 0 \/ << px.x, px.y >> \in DOMAIN next.lookup
          THEN <<>>
          ELSE << [x |-> px.x, y |-> px.y, value |-> RESTORE_DEBUG_COLOR, edges |-> 0] >>)
         \o RestoreMarkers(Tail(buf), next)

PreInit ==
    /\ restoreMode \in BOOLEAN /\ MainInit
    /\ part = NoPart /\ edge = NoEdge /\ NoAux
    /\ pre \in { [pc |-> "load", raw |-> r, offset_x |-> ox, offset_y |-> oy,
                  frames |-> <<>>, i |-> 0] :
                 r \in UNION { [1 .. n -> RawFrames] : n \in 1 .. MaxFrames },
                 ox \in 0 .. MaxOffset, oy \in 0 .. MaxOffset }

\* main.rs 230-263: the decoder's next frame is loaded
PreLoad ==
    /\ pre.pc = "load" /\ Len(pre.frames) < Len(pre.raw)
    /\ pre' = [pre EXCEPT !.frames = Append(@, LoadFrame(pre.raw[Len(pre.frames) + 1],
                                                         pre.offset_x, pre.offset_y))]
    /\ UNCHANGED << mainVars, part, edge, auxVars >>

\* main.rs 265-269: the decoder is done; the restore pass runs only with args.restore
PreLoaded ==
    /\ pre.pc = "load" /\ Len(pre.frames) = Len(pre.raw)
    /\ pre' = [pre EXCEPT !.pc = IF restoreMode THEN "restore" ELSE "done", !.i = 0]
    /\ UNCHANGED << mainVars, part, edge, auxVars >>

\* main.rs 270-294: one iteration of the restore pass. For the last frame
\* split_at_mut(1) leaves frames[1..] in split.1, and split.1[len - 1] with
\* len = 0 underflows (debug build) or is out of bounds (release build): both panic
PreRestore ==
    /\ pre.pc = "restore" /\ pre.i < Len(pre.frames)
    /\ LET num_frames == Len(pre.frames)
           len == num_frames - 1
       IN IF pre.i = num_frames - 1 /\ len = 0
          THEN pre' = [pre EXCEPT !.pc = "panic"]
          ELSE LET f == IF pre.i = num_frames - 1 THEN 1 + len ELSE pre.i + 1
                   nx == IF pre.i = num_frames - 1 THEN 1 ELSE pre.i + 2
               IN pre' = [pre EXCEPT
                            !.frames[f].restore =
                                @ \o RestoreMarkers(pre.frames[f].data, pre.frames[nx]),
                            !.i = @ + 1]
    /\ UNCHANGED << mainVars, part, edge, auxVars >>

\* main.rs 297-302: the restore pass is over
PreDone ==
    /\ pre.pc = "restore" /\ pre.i >= Len(pre.frames)
    /\ pre' = [pre EXCEPT !.pc = "done"]
    /\ UNCHANGED << mainVars, part, edge, auxVars >>

PreNext == PreLoad \/ PreLoaded \/ PreRestore \/ PreDone

PreSpec == PreInit /\ [][PreNext]_vars

(* ------------------------------------------- filter/blend.rs, filter/rainbow.rs *)
\* filter/mod.rs 15: restore is an Option<Vec<Pixel>>
NoRestore == [some |-> FALSE, vec |-> <<>>]
Some(v) == [some |-> TRUE, vec |-> v]

\* blend.rs 22, rainbow.rs 36-37: px.value.blend(other), the source-over
\* compositing of the image crate on 8-bit channels: a transparent other leaves
\* the pixel alone, an opaque one replaces it, otherwise the channels are mixed
\* by the two alphas (af is the resulting alpha scaled by 255 * 255)
BlendPx(bg, fg) ==
    IF fg[4] = 0 THEN bg
    ELSE IF fg[4] = 255 THEN fg
    ELSE LET af == (255 * (bg[4] + fg[4])) - (bg[4] * fg[4])
             ch(k) == ((fg[k] * fg[4] * 255) + (bg[k] * bg[4] * (255 - fg[4]))) \div af
         IN << ch(1), ch(2), ch(3), af \div 255 >>

\* rainbow.rs 28-33: one channel of HSL { h, s: 1.0, l: 0.5 }.to_rgb() for the
\* hue t in degrees: a ramp up over 60 degrees, 120 degrees full, a ramp down
HueToByte(t) ==
    LET d == t % 360 IN
    IF d < 60 THEN ((510 * d) + 60) \div 120
    ELSE IF d < 180 THEN 255
    ELSE IF d < 240 THEN ((510 * (240 - d)) + 60) \div 120
    ELSE 0

\* rainbow.rs 27-33, 37: the mask colour of a hue
Mask(hue, alpha) == << HueToByte(hue + 120), HueToByte(hue), HueToByte(hue + 240), alpha >>

\* mutant of BlendTransformBuffer: an erase-marker pushed for every pixel
BlendTransformBuffer_Push(self, buffer, restore) ==
    [self |-> self,
     buffer |-> [i \in 1 .. Len(buffer) |->
                    [buffer[i] EXCEPT !.value = BlendPx(@, self.color)]],
     restore |-> IF restore.some
                 THEN Some(restore.vec \o [i \in 1 .. Len(buffer) |->
                                             [buffer[i] EXCEPT !.value = RESTORE_DEBUG_COLOR,
                                                               !.edges = 0]])
                 ELSE restore]

\* blend.rs 15-25: Blend::transform_buffer
BlendTransformBuffer(self, buffer, restore) ==
    [self |-> self,
     buffer |-> [i \in 1 .. Len(buffer) |->
                    [buffer[i] EXCEPT !.value = BlendPx(@, self.color)]],
     restore |-> restore]

\* rainbow.rs 21-42: Rainbow::transform_buffer
RainbowTransformBuffer(self, buffer, restore) ==
    LET hue == (self.frame * self.speed) % 360 IN
    [self |-> [self EXCEPT !.frame = @ + 1],
     buffer |-> [i \in 1 .. Len(buffer) |->
                    [buffer[i] EXCEPT !.value = BlendPx(@, Mask(hue, self.alpha))]],
     restore |-> restore]

\* the pixels the colour filters are run on: two cells, opaque and translucent
\* colours, two edge sets
FiltPixels ==
    { [x |-> x, y |-> 0, value |-> v, edges |-> e] :
        x \in 0 .. 1, v \in { << 255, 255, 255, 255 >>, << 10, 20, 30, 128 >> },
        e \in { EdgeTop + EdgeRight, EdgeBottom + EdgeLeft } }

FiltBuffers == UNION { [1 .. n -> FiltPixels] : n \in 0 .. MaxFiltLen }

FiltRestores ==
    { NoRestore, Some(<<>>),
      Some(<< [x |-> 1, y |-> 0, value |-> RESTORE_DEBUG_COLOR, edges |-> 0] >>) }

\* main.rs 319-321, 327-334: Rainbow::new(alpha, 10) and Blend::new(color); the
\* buffer and restore of main.rs 364-369
ColourInit ==
    /\ restoreMode = FALSE /\ MainInit
    /\ part = NoPart /\ edge = NoEdge /\ pre = NoPre /\ wire = [pc |-> "off"]
    /\ hs = [pc |-> "off"] /\ bnc = [pc |-> "off"] /\ gl = [pc |-> "off"]
    /\ sch = [pc |-> "off"]
    /\ flt \in { [pc |-> "run", input |-> b, buffer |-> b, restore_in |-> r, restore |-> r,
                  blend |-> [color |-> c],
                  rainbow |-> [alpha |-> a, speed |-> 10, frame |-> 0],
                  calls |-> 0] :
                 b \in FiltBuffers, r \in FiltRestores,
                 c \in { << 0, 0, 0, 0 >>, << 200, 100, 0, 128 >>, << 1, 2, 3, 255 >> },
                 a \in { 0, 128, 255 } }

\* main.rs 371 on the Blend filter
BlendTransform ==
    /\ flt.pc = "run" /\ flt.calls < MaxCalls
    /\ LET out == BlendTransformBuffer(flt.blend, flt.buffer, flt.restore) IN
         flt' = [flt EXCEPT !.blend = out.self, !.buffer = out.buffer,
                            !.restore = out.restore, !.calls = @ + 1]
    /\ UNCHANGED << mainVars, part, edge, pre, wire, hs, bnc, gl, sch >>

\* main.rs 371 on the Rainbow filter
RainbowTransform ==
    /\ flt.pc = "run" /\ flt.calls < MaxCalls
    /\ LET out == RainbowTransformBuffer(flt.rainbow, flt.buffer, flt.restore) IN
         flt' = [flt EXCEPT !.rainbow = out.self, !.buffer = out.buffer,
                            !.restore = out.restore, !.calls = @ + 1]
    /\ UNCHANGED << mainVars, part, edge, pre, wire, hs, bnc, gl, sch >>

ColourNext == BlendTransform \/ RainbowTransform

ColourSpec == ColourInit /\ [][ColourNext]_vars

(* ------------------------------------------------ main: fetch_canvas_size *)
\* the bytes a server sends: ASCII characters, the newline, and 0xC3 for a byte
\* above 0x7f
Digits == { "0", "1", "2", "3", "4", "5", "6", "7", "8", "9" }
Bytes == { "S", " ", "8", "+", "\n", "0xC3" }

\* main.rs 65: u8::is_ascii
is_ascii(b) == b /= "0xC3"

\* reply lines read beyond MaxReply bytes
SampleReplies ==
    { << "S", "I", "Z", "E", " ", "8", "0", "0", " ", "6", "0", "0" >>,
      << "B", "A", "D", "X" >>,
      << "S", " ", "4", "2", "9", "4", "9", "6", "7", "2", "9", "6", " ", "7" >>,
      << "S", " ", "0", "2", "1", "4", "7", "4", "8", "3", "6", "4", "7", " ", "7" >> }

IsPrefix(s, t) == Len(s) <= Len(t) /\ SubSeq(t, 1, Len(s)) = s

DigitVal(d) ==
    CASE d = "0" -> 0 [] d = "1" -> 1 [] d = "2" -> 2 [] d = "3" -> 3 [] d = "4" -> 4
      [] d = "5" -> 5 [] d = "6" -> 6 [] d = "7" -> 7 [] d = "8" -> 8 [] d = "9" -> 9

\* the value of a string of decimal digits
RECURSIVE DecVal(_)
DecVal(s) ==
    IF s = <<>> THEN 0 ELSE (10 * DecVal(SubSeq(s, 1, Len(s) - 1))) + DigitVal(s[Len(s)])

\* main.rs 76: answer.split(' '): the pieces between the spaces, empty ones included
RECURSIVE Split(_)
Split(s) ==
    IF \A i \in 1 .. Len(s) : s[i] /= " " THEN << s >>
    ELSE LET i == CHOOSE k \in 1 .. Len(s) :
                     s[k] = " " /\ \A j \in 1 .. (k - 1) : s[j] /= " "
         IN << SubSeq(s, 1, i - 1) >> \o Split(SubSeq(s, i + 1, Len(s)))

\* u32::MAX in decimal digits
U32Max == << "4", "2", "9", "4", "9", "6", "7", "2", "9", "5" >>

\* a string of decimal digits without its leading zeros
RECURSIVE Significant(_)
Significant(ds) == IF ds /= <<>> /\ ds[1] = "0" THEN Significant(Tail(ds)) ELSE ds

\* the number a string of decimal digits denotes is at most u32::MAX
FitsU32(ds) ==
    LET s == Significant(ds) IN
    \/ Len(s) < Len(U32Max)
    \/ /\ Len(s) = Len(U32Max)
       /\ \A i \in 1 .. Len(s) :
             (\A j \in 1 .. (i - 1) : s[j] = U32Max[j]) => DigitVal(s[i]) <= DigitVal(U32Max[i])

\* mutant of ParseU32: an empty token parses as 0
ParseU32_EmptyIsZero(tok) ==
    LET ds == IF tok /= <<>> /\ tok[1] = "+" THEN Tail(tok) ELSE tok IN
    IF (\A i \in 1 .. Len(ds) : ds[i] \in Digits) /\ FitsU32(ds)
    THEN [ok |-> TRUE, val |-> DecVal(ds)]
    ELSE [ok |-> FALSE, val |-> 0]

\* main.rs 81-82: str::parse::<u32>: an optional '+', then at least one decimal
\* digit, the value at most u32::MAX (the replies of the model stay below 2^31)
ParseU32(tok) ==
    LET ds == IF tok /= <<>> /\ tok[1] = "+" THEN Tail(tok) ELSE tok IN
    IF ds /= <<>> /\ (\A i \in 1 .. Len(ds) : ds[i] \in Digits) /\ FitsU32(ds)
    THEN [ok |-> TRUE, val |-> DecVal(ds)]
    ELSE [ok |-> FALSE, val |-> 0]

\* main.rs 76-84: the line is complete
ParseAnswer(answer) ==
    LET parts == Tail(Split(answer)) IN
    IF Len(parts) /= 2 THEN [pc |-> "err", err |-> "invalid answer", canvas_size |-> << >>]
    ELSE LET x == ParseU32(parts[1])
             y == ParseU32(parts[2])
         IN IF ~x.ok \/ ~y.ok
            THEN [pc |-> "err", err |-> "parse", canvas_size |-> << >>]
            ELSE [pc |-> "ok", err |-> "", canvas_size |-> << x.val, y.val >>]

HsReturn(r) == [hs EXCEPT !.pc = r.pc, !.err = r.err, !.canvas_size = r.canvas_size]
HsErr(e) == HsReturn([pc |-> "err", err |-> e, canvas_size |-> << >>])

HsInit ==
    /\ restoreMode = FALSE /\ MainInit
    /\ part = NoPart /\ edge = NoEdge /\ pre = NoPre /\ wire = [pc |-> "off"]
    /\ flt = [pc |-> "off"] /\ bnc = [pc |-> "off"] /\ gl = [pc |-> "off"]
    /\ sch = [pc |-> "off"]
    /\ hs = [pc |-> "connect", answer |-> <<>>, err |-> "", canvas_size |-> << >>]

\* main.rs 55: the connection is established
HsConnect ==
    /\ hs.pc = "connect"
    /\ hs' = [hs EXCEPT !.pc = "write"]
    /\ UNCHANGED << mainVars, part, edge, pre, wire, flt, bnc, gl, sch >>

\* main.rs 55: TcpStream::connect(..).await? on a refused connection
HsConnectErr ==
    /\ hs.pc = "connect"
    /\ hs' = HsErr("connect")
    /\ UNCHANGED << mainVars, part, edge, pre, wire, flt, bnc, gl, sch >>

\* main.rs 58: the query is written
HsWrite ==
    /\ hs.pc = "write"
    /\ hs' = [hs EXCEPT !.pc = "read"]
    /\ UNCHANGED << mainVars, part, edge, pre, wire, flt, bnc, gl, sch >>

\* main.rs 58: tx.write(..).await? fails
HsWriteErr ==
    /\ hs.pc = "write"
    /\ hs' = HsErr("io")
    /\ UNCHANGED << mainVars, part, edge, pre, wire, flt, bnc, gl, sch >>

\* main.rs 59-84: read returned one byte b; the newline ends the loop and the
\* line is parsed
HsRead(b) ==
    /\ hs.pc = "read"
    /\ hs' = IF ~is_ascii(b) THEN HsErr("non ascii")
             ELSE IF b = "\n" THEN HsReturn(ParseAnswer(hs.answer))
             ELSE [hs EXCEPT !.answer = Append(@, b)]
    /\ UNCHANGED << mainVars, part, edge, pre, wire, flt, bnc, gl, sch >>

\* main.rs 61-63: read returned 0 bytes: the server closed the stream
HsReadEof ==
    /\ hs.pc = "read"
    /\ hs' = HsErr("early EOF")
    /\ UNCHANGED << mainVars, part, edge, pre, wire, flt, bnc, gl, sch >>

\* main.rs 61: rx.read(..).await? fails
HsReadErr ==
    /\ hs.pc = "read"
    /\ hs' = HsErr("io")
    /\ UNCHANGED << mainVars, part, edge, pre, wire, flt, bnc, gl, sch >>

\* the server's next byte: any of Bytes while the line is short, and the bytes
\* of the sample replies
NextBytes ==
    { b \in Bytes : Len(hs.answer) < MaxReply \/ b \in { "\n", "0xC3" } }
    \cup { r[Len(hs.answer) + 1] : r \in { s \in SampleReplies :
                                            /\ IsPrefix(hs.answer, s)
                                            /\ Len(hs.answer) < Len(s) } }

HsNext ==
    \/ HsConnect
    \/ HsConnectErr
    \/ HsWrite
    \/ HsWriteErr
    \/ \E b \in NextBytes : HsRead(b)
    \/ HsReadEof
    \/ HsReadErr

HsSpec == HsInit /\ [][HsNext]_vars

(* ---------------------------------------------------------- filter/bounce.rs *)
\* bounce.rs 12: VEC_RANGE = 0..4
VEC_RANGE == 0 .. 3
VecRangeEnd == 4

\* main.rs 232-258 for a fully opaque SpriteW x SpriteH frame placed at (ox, oy)
Sprite(ox, oy) ==
    CalcEdges([k \in 1 .. (SpriteW * SpriteH) |->
                 SrcPixel(((k - 1) % SpriteW) + ox, ((k - 1) \div SpriteW) + oy, 255)])

\* main.rs 309-314: config.image_area
ImageArea(ox, oy) == [origin_x |-> ox, origin_y |-> oy, size_x |-> SpriteW, size_y |-> SpriteH]

\* bounce.rs 133-145: change_direction, r the value of random_range(VEC_RANGE)
change_direction(direction, speed, invert, r) ==
    LET x == IF invert THEN r + speed ELSE -(r + speed) IN
    IF direction > 0 THEN -x ELSE x

\* bounce.rs 80-87 (towards = -1) and 89-96 (towards = 1): a run of size markers
\* along x; a coordinate below 0 stands for the underflow of the u32 subtraction
MarkersX(px, size, towards) ==
    [i \in 1 .. size |-> [x |-> px.x + (towards * (i - 1)), y |-> px.y,
                          value |-> << 0, 0, 0, 255 >>, edges |-> 0]]

\* bounce.rs 99-106 (towards = -1) and 108-115 (towards = 1): the same along y
MarkersY(px, size, towards) ==
    [i \in 1 .. size |-> [x |-> px.x, y |-> px.y + (towards * (i - 1)),
                          value |-> << 0, 0, 0, 255 >>, edges |-> 0]]

\* bounce.rs 76-117: the markers pushed for the translated pixel px
BounceMarkers(self, change_x, change_y, px) ==
    LET size == VecRangeEnd + self.speed IN
    (IF (self.vec_x < 0 \/ change_x) /\ has_edge(px.edges, EdgeRight)
     THEN MarkersX(px, size, -1)
     ELSE IF (self.vec_x > 0 \/ change_x) /\ has_edge(px.edges, EdgeLeft)
     THEN MarkersX(px, size, 1)
     ELSE <<>>)
    \o
    (IF (self.vec_y < 0 \/ change_y) /\ has_edge(px.edges, EdgeBottom)
     THEN MarkersY(px, size, -1)
     ELSE IF (self.vec_y > 0 \/ change_y) /\ has_edge(px.edges, EdgeTop)
     THEN MarkersY(px, size, 1)
     ELSE <<>>)

RECURSIVE Flatten(_)
Flatten(ss) == IF ss = <<>> THEN <<>> ELSE Head(ss) \o Flatten(Tail(ss))

\* bounce.rs 54-61 for x, 63-70 for y: the two boundary tests of one axis
ClampBase(base, origin, size, screen) ==
    LET lo == IF base + origin < 0 THEN [base |-> -origin, change |-> TRUE]
              ELSE [base |-> base, change |-> FALSE]
    IN IF lo.base + size >= screen
       THEN [base |-> screen - size, change |-> TRUE]
       ELSE lo

\* bounce.rs 44-130: Bounce::transform_buffer; rx and ry are the values of the
\* two random_range calls of lines 120-129
BounceTransformBuffer(self, buffer, restore, rx, ry) ==
    LET cx == ClampBase(self.base_x + self.vec_x, self.area.origin_x,
                        self.area.size_x, self.screen_x)
        cy == ClampBase(self.base_y + self.vec_y, self.area.origin_y,
                        self.area.size_y, self.screen_y)
        moved == [self EXCEPT !.base_x = cx.base, !.base_y = cy.base]
        out == [i \in 1 .. Len(buffer) |->
                  [buffer[i] EXCEPT !.x = @ + cx.base, !.y = @ + cy.base]]
    IN [self |-> IF cx.change /\ cy.change
                 THEN [moved EXCEPT
                         !.vec_x = change_direction(self.vec_x, self.speed, TRUE, rx),
                         !.vec_y = change_direction(self.vec_y, self.speed, TRUE, ry)]
                 ELSE IF cx.change
                 THEN [moved EXCEPT
                         !.vec_x = change_direction(self.vec_x, self.speed, TRUE, rx),
                         !.vec_y = change_direction(self.vec_y, self.speed, FALSE, ry)]
                 ELSE IF cy.change
                 THEN [moved EXCEPT
                         !.vec_y = change_direction(self.vec_y, self.speed, TRUE, rx),
                         !.vec_x = change_direction(self.vec_x, self.speed, FALSE, ry)]
                 ELSE moved,
        change_x |-> cx.change,
        change_y |-> cy.change,
        buffer |-> out,
        restore |-> IF restore.some
                    THEN Some(restore.vec \o
                              Flatten([i \in 1 .. Len(out) |->
                                         BounceMarkers(moved, cx.change, cy.change, out[i])]))
                    ELSE restore]

\* bounce.rs 29-40: Bounce::new for a sprite that starts inside the canvas
BounceNew(ox, oy, speed, rx, ry) ==
    [base_x |-> 0, base_y |-> 0, vec_x |-> rx + speed, vec_y |-> ry + speed,
     screen_x |-> CanvasW, screen_y |-> CanvasH, area |-> ImageArea(ox, oy), speed |-> speed]

BounceInit ==
    /\ restoreMode \in BOOLEAN /\ MainInit
    /\ part = NoPart /\ edge = NoEdge /\ pre = NoPre /\ wire = [pc |-> "off"]
    /\ hs = [pc |-> "off"] /\ flt = [pc |-> "off"] /\ gl = [pc |-> "off"]
    /\ sch = [pc |-> "off"]
    /\ bnc \in { [pc |-> "new", self |-> BounceNew(ox, oy, speed, rx, ry),
                  frame |-> Sprite(ox, oy), buffer |-> <<>>,
                  restore |-> NoRestore, change_x |-> FALSE, change_y |-> FALSE] :
                 ox \in 0 .. (CanvasW - SpriteW), oy \in 0 .. (CanvasH - SpriteH),
                 speed \in 0 .. MaxSpeed, rx \in VEC_RANGE, ry \in VEC_RANGE }

\* main.rs 364-372 with the Bounce filter: a fresh clone of the frame and of its
\* (empty) restore buffer is transformed
BounceTransform(rx, ry) ==
    /\ bnc.pc \in { "new", "run" }
    /\ LET out == BounceTransformBuffer(bnc.self, bnc.frame,
                                        IF restoreMode THEN Some(<<>>) ELSE NoRestore,
                                        rx, ry)
       IN bnc' = [bnc EXCEPT !.pc = "run", !.self = out.self, !.buffer = out.buffer,
                             !.restore = out.restore,
                             !.change_x = out.change_x, !.change_y = out.change_y]
    /\ UNCHANGED << mainVars, part, edge, pre, wire, hs, flt, gl, sch >>

BounceSpec == BounceInit /\ [][\E rx, ry \in VEC_RANGE : BounceTransform(rx, ry)]_vars

(* ---------------------------------------------------------- filter/glitch.rs *)
\* glitch.rs 11
PRESET == << -3, -2, -1, 0, 0, 0, 0, 1, 2, 3 >>

\* glitch.rs 41: StdRng::seed_from_u64(seed): the n-th value the generator
\* yields is a function of the seed and of n alone; Draw stands for that function
Draw(seed, n) == ((seed * 73) + (n * 151) + ((seed * n) * 7) + 11) % 256

\* glitch.rs 44, 50: PRESET[rng.random::<u8>() as usize % PRESET.len()] * factor
\* for the generator's n-th value
DrawOffset(seed, n, factor) == PRESET[(Draw(seed, n) % Len(PRESET)) + 1] * factor

\* glitch.rs 49: rng.random_bool(1.0 / factor) for the generator's n-th value
DrawBool(seed, n, factor) == Draw(seed, n) % factor = 0

\* glitch.rs 58-75: the markers pushed for the shifted pixel px
GlitchMarkers(px, offset) ==
    IF offset < 0 /\ has_edge(px.edges, EdgeLeft)
    THEN [i \in 1 .. (-offset) |-> [x |-> px.x + (i - 1), y |-> px.y,
                                    value |-> RESTORE_DEBUG_COLOR, edges |-> 0]]
    ELSE IF offset > 0 /\ has_edge(px.edges, EdgeRight)
    THEN [i \in 1 .. offset |-> [x |-> px.x - (i - 1), y |-> px.y,
                                 value |-> RESTORE_DEBUG_COLOR, edges |-> 0]]
    ELSE <<>>

\* glitch.rs 43-79: the loop over the first k pixels of the buffer. n counts the
\* values drawn from the generator, offs lists the offset in force at each pixel
RECURSIVE GlitchLoop(_, _, _, _)
GlitchLoop(self, buffer, some, k) ==
    IF k = 0
    THEN [n |-> 1, last_y |-> 0, offset |-> DrawOffset(self.seed, 0, self.factor),
          out |-> <<>>, pushed |-> <<>>, offs |-> <<>>]
    ELSE LET p == GlitchLoop(self, buffer, some, k - 1)
             px == buffer[k]
             row == px.y > p.last_y
             redraw == row /\ DrawBool(self.seed, p.n, self.factor)
             offset == IF redraw THEN DrawOffset(self.seed, p.n + 1, self.factor)
                       ELSE p.offset
             n == IF redraw THEN p.n + 2 ELSE IF row THEN p.n + 1 ELSE p.n
             val == px.x + offset
             fits == val >= 0 /\ val < self.screen_x
             moved == IF fits THEN [px EXCEPT !.x = val] ELSE px
         IN [n |-> n, last_y |-> IF row THEN px.y ELSE p.last_y, offset |-> offset,
             out |-> Append(p.out, moved),
             pushed |-> IF fits /\ some THEN p.pushed \o GlitchMarkers(moved, offset)
                        ELSE p.pushed,
             offs |-> Append(p.offs, offset)]

\* mutant of GlitchSeed: the seed advances on every invocation
GlitchSeed_Always(self) == self.seed + 1

\* glitch.rs 37-39: the seed an invocation runs with
GlitchSeed(self) == IF self.index % 4 = 0 THEN self.seed + 1 ELSE self.seed

\* glitch.rs 32-80: Glitch::transform_buffer
GlitchTransformBuffer(self, buffer, restore) ==
    LET seeded == [self EXCEPT !.seed = GlitchSeed(self), !.index = @ + 1]
        r == GlitchLoop(seeded, buffer, restore.some, Len(buffer))
    IN [self |-> seeded,
        buffer |-> r.out,
        restore |-> IF restore.some THEN Some(restore.vec \o r.pushed) ELSE restore,
        offs |-> r.offs]

\* glitch.rs 20-28: Glitch::new; seed is the value of random()
GlitchNew(factor, seed) == [factor |-> factor, screen_x |-> CanvasW, seed |-> seed, index |-> 0]

GlitchInit ==
    /\ restoreMode \in BOOLEAN /\ MainInit
    /\ part = NoPart /\ edge = NoEdge /\ pre = NoPre /\ wire = [pc |-> "off"]
    /\ hs = [pc |-> "off"] /\ flt = [pc |-> "off"] /\ bnc = [pc |-> "off"]
    /\ sch = [pc |-> "off"]
    /\ gl \in { [pc |-> "new", self |-> GlitchNew(factor, seed),
                 frame |-> Sprite(ox, oy), buffer |-> <<>>, restore |-> NoRestore,
                 offs |-> <<>>, seeds |-> <<>>, rows |-> <<>>] :
                factor \in 1 .. MaxFactor, seed \in 0 .. MaxSeed,
                ox \in 0 .. (CanvasW - SpriteW), oy \in 0 .. (CanvasH - SpriteH) }

\* main.rs 364-372 with the Glitch filter: a fresh clone of the frame and of its
\* (empty) restore buffer is transformed. seeds and rows keep, per invocation,
\* the seed it ran with and the offsets it had in force
GlitchTransform ==
    /\ gl.pc \in { "new", "run" } /\ gl.self.index < MaxGlitchCalls
    /\ LET out == GlitchTransformBuffer(gl.self, gl.frame,
                                        IF restoreMode THEN Some(<<>>) ELSE NoRestore)
       IN gl' = [gl EXCEPT !.pc = "run", !.self = out.self, !.buffer = out.buffer,
                           !.restore = out.restore, !.offs = out.offs,
                           !.seeds = Append(@, out.self.seed),
                           !.rows = Append(@, out.offs)]
    /\ UNCHANGED << mainVars, part, edge, pre, wire, hs, flt, bnc, sch >>

GlitchSpec == GlitchInit /\ [][GlitchTransform]_vars

(* ------------------------------------------------- main: the playback loop *)
\* main.rs 317-338: the filters in the order in which main pushes them
FilterOrder == << "rainbow", "bounce", "blend", "glitch" >>

\* main.rs 319-338: the filters of the arguments given, args a set of filter names
RECURSIVE Configured(_, _)
Configured(args, k) ==
    IF k = 0 THEN <<>>
    ELSE Configured(args, k - 1)
         \o (IF FilterOrder[k] \in args THEN << FilterOrder[k] >> ELSE <<>>)

\* main.rs 370-372: the clone goes through the first k filters, one after the
\* other; a filter's transform_buffer is kept as its name in the clone's trace
RECURSIVE RunFilters(_, _, _)
RunFilters(filters, clone, k) ==
    IF k = 0 THEN clone
    ELSE LET c == RunFilters(filters, clone, k - 1) IN
         [c EXCEPT !.applied = Append(@, filters[k])]

\* mutant of NextFrame: stay on the last frame
NextFrame_Stay(pos, n) == IF pos + 1 = n THEN pos ELSE pos + 1

\* main.rs 353-356: the for loop inside the loop: after the last frame the first
NextFrame(pos, n) == IF pos + 1 = n THEN 0 ELSE pos + 1

\* main.rs 297-300, 317-338: n preprocessed frames, frame i with i + 1 pixels
\* and, in restore mode, i % 2 erase-markers; the filters of the arguments
SchedInit ==
    /\ restoreMode \in BOOLEAN /\ MainInit
    /\ part = NoPart /\ edge = NoEdge /\ pre = NoPre /\ wire = [pc |-> "off"]
    /\ hs = [pc |-> "off"] /\ flt = [pc |-> "off"] /\ bnc = [pc |-> "off"]
    /\ gl = [pc |-> "off"]
    /\ sch \in { [pc |-> "run",
                  frames |-> [i \in 1 .. n |-> [len |-> i, rlen |-> (i - 1) % (MaxRestoreLen + 1)]],
                  filters |-> Configured(args, Len(FilterOrder)),
                  pos |-> 0, sent |-> <<>>] :
                 n \in 1 .. MaxFrames, args \in SUBSET { "rainbow", "bounce", "blend", "glitch" } }

\* main.rs 356-374: one tick: the frame and its restore buffer are cloned, the
\* clone goes through the filters, the result is submitted (conn.rs 131-135).
\* Bounce and Glitch may push erase-markers to a restore buffer that is present
SchedTick(rlen) ==
    /\ sch.pc = "run" /\ mainPc = "run"
    /\ submitted < MaxUpdates /\ Len(mpsc_rx) < MaxQueue
    /\ engine.pc /= "dead"
    /\ LET frame == sch.frames[sch.pos + 1]
           out == RunFilters(sch.filters, [frame |-> sch.pos, applied |-> <<>>],
                             Len(sch.filters))
           job == [buffer |-> BufferOf(submitted + 1, frame.len),
                   restore |-> RestoreOf(submitted + 1, rlen)]
       IN /\ rlen >= frame.rlen
          /\ rlen > frame.rlen =>
               restoreMode /\ \E k \in 1 .. Len(sch.filters) : sch.filters[k] \in { "bounce", "glitch" }
          /\ mpsc_rx' = Append(mpsc_rx, job)
          /\ sch' = [sch EXCEPT !.pos = NextFrame(sch.pos, Len(sch.frames)),
                                !.sent = Append(@, [frame |-> out.frame,
                                                    applied |-> out.applied,
                                                    len |-> job.buffer.len,
                                                    restore |-> job.restore /= None])]
    /\ submitted' = submitted + 1
    /\ UNCHANGED << restoreMode, part, edge, pre, wire, hs, flt, bnc, gl, mainPc, engine, conn_rx,
                    link, oneshot, stats_rx, errors, histVars >>

\* the playback loop with the engine and its links, every connection and every
\* write succeeding
SchedNext ==
    \/ \E rlen \in 0 .. MaxRestoreLen : SchedTick(rlen)
    \/ EngineLoop
    \/ EngineRecv
    \/ DrawSend
    \/ \E c \in Links : DrawJoin(c)
    \/ DrawDone
    \/ \E c \in Links : LinkConnect(c)
    \/ \E c \in Links : LinkRecv(c)
    \/ \E c \in Links : LinkWriteOk(c)
    \/ \E c \in Links : LinkReply(c)
    \/ start_display

SchedSpec == SchedInit /\ [][SchedNext]_vars

(* ------------------------------------------------- runs with lost links *)
\* every step of Spec, under the scheduling of the tokio runtime: the engine
\* task runs when it can (a send to a dead link, a join of a dropped reply
\* and a send to a live link all complete), and main comes back to
\* update_buffer at its next tick
FaultSpec ==
    /\ Init /\ [][Next]_vars
    /\ WF_vars(DrawSend) /\ WF_vars(DrawSendErr)
    /\ \A c \in Links : WF_vars(DrawJoinErr(c))
    /\ WF_vars(update_buffer_err)

(* ------------------------------------------ a link's connection, byte by byte *)
\* one link task working through one job (conn.rs 27-62), with the bytes its
\* connection accepted

\* {:02x}: two lower-case hexadecimal digits of a byte
HexDigits == << "0", "1", "2", "3", "4", "5", "6", "7", "8", "9", "a", "b", "c", "d", "e", "f" >>
Hex2(b) == << HexDigits[(b \div 16) + 1], HexDigits[(b % 16) + 1] >>

\* {}: the decimal digits of a u32
RECURSIVE Dec(_)
Dec(n) == IF n < 10 THEN << HexDigits[n + 1] >> ELSE Dec(n \div 10) \o << HexDigits[(n % 10) + 1] >>

\* conn.rs 41-49: format!("PX {x} {y} {r:02x}{g:02x}{b:02x}{a:02x}\n")
Command(px) ==
    << "P", "X", " " >> \o Dec(px.x) \o << " " >> \o Dec(px.y) \o << " " >>
    \o Hex2(px.value[1]) \o Hex2(px.value[2]) \o Hex2(px.value[3]) \o Hex2(px.value[4])
    \o << "\n" >>

\* the pixels of the jobs of the wire model
WirePixels ==
    { [x |-> 0, y |-> 7, value |-> << 255, 0, 16, 255 >>],
      [x |-> 12, y |-> 0, value |-> << 0, 171, 9, 128 >>],
      [x |-> 3, y |-> 105, value |-> << 1, 2, 3, 4 >>] }

WireInit ==
    /\ restoreMode = FALSE /\ MainInit
    /\ part = NoPart /\ edge = NoEdge /\ pre = NoPre
    /\ hs = [pc |-> "off"] /\ flt = [pc |-> "off"] /\ bnc = [pc |-> "off"]
    /\ gl = [pc |-> "off"] /\ sch = [pc |-> "off"]
    /\ wire \in { [pc |-> "recv", buffer |-> b, conn_id |-> c, errors |-> 0, num_px |-> 0,
                   i |-> 0, command |-> <<>>, tcp_tx |-> <<>>, from |-> 0, fails |-> 0,
                   reply |-> -1] :
                  b \in UNION { [1 .. n -> WirePixels] : n \in 0 .. MaxWireLen },
                  c \in Links }

WireUnchanged == UNCHANGED << mainVars, part, edge, pre, hs, flt, bnc, gl, sch >>

\* conn.rs 23-31: the link takes the job; errors = 0; num_px
WireRecv ==
    /\ wire.pc = "recv"
    /\ wire' = [wire EXCEPT !.pc = "for", !.errors = 0, !.i = 0,
                            !.num_px = NumPx(Len(wire.buffer), NumLinks, wire.conn_id)]
    /\ WireUnchanged

\* conn.rs 33-49: the next iteration of the for loop formats its pixel's command
WireFormat ==
    /\ wire.pc = "for" /\ wire.i < wire.num_px
    /\ wire' = [wire EXCEPT !.pc = "write",
                            !.command = Command(wire.buffer[Idx(wire.i, NumLinks, wire.conn_id) + 1])]
    /\ WireUnchanged

\* conn.rs 52, 58: write(command.as_bytes()) returns Ok(n): the connection
\* accepted the first n bytes of the command; Ok(_) => break, whatever n is
WireWriteOk(n) ==
    /\ wire.pc = "write" /\ n \in 0 .. Len(wire.command)
    /\ wire' = [wire EXCEPT !.pc = "for", !.i = @ + 1,
                            !.tcp_tx = @ \o SubSeq(wire.command, 1, n)]
    /\ WireUnchanged

\* conn.rs 53-55: write returns Err; errors += 1, then connect again
WireWriteErr ==
    /\ wire.pc = "write" /\ wire.fails < MaxWireFail
    /\ wire' = [wire EXCEPT !.pc = "reconnect", !.errors = @ + 1, !.fails = @ + 1]
    /\ WireUnchanged

\* conn.rs 56: tcp_tx is the write half of a new connection; the same command
\* is written again
WireReconnect ==
    /\ wire.pc = "reconnect"
    /\ wire' = [wire EXCEPT !.pc = "write", !.tcp_tx = <<>>, !.from = wire.i]
    /\ WireUnchanged

\* conn.rs 56: connect(..).await.unwrap() on a refused connection: the task panics
WireReconnectFail ==
    /\ wire.pc = "reconnect"
    /\ wire' = [wire EXCEPT !.pc = "dead"]
    /\ WireUnchanged

\* conn.rs 62: the for loop is over; the link replies with its error count
WireReply ==
    /\ wire.pc = "for" /\ wire.i >= wire.num_px
    /\ wire' = [wire EXCEPT !.pc = "done", !.reply = wire.errors]
    /\ WireUnchanged

WireNext ==
    \/ WireRecv
    \/ WireFormat
    \/ \E n \in 0 .. Len(wire.command) : WireWriteOk(n)
    \/ WireWriteErr
    \/ WireReconnect
    \/ WireReconnectFail
    \/ WireReply

WireSpec == WireInit /\ [][WireNext]_vars

(* ================================================================ claims *)
\* the canvas coordinates of the opaque pixels of the k-th decoded frame
Opaque(k) ==
    { << (i % FrameW) + pre.offset_x, (i \div FrameW) + pre.offset_y >> :
        i \in { j \in 0 .. ((FrameW * FrameH) - 1) : pre.raw[k][j] /= 0 } }

\* the frame that follows frame k in the looped sequence
Follower(k) == (k % Len(pre.raw)) + 1

\* the markers of frame k's restore buffer at coordinate c
MarkersAt(k, c) ==
    { m \in 1 .. Len(pre.frames[k].restore) :
        pre.frames[k].restore[m].x = c[1] /\ pre.frames[k].restore[m].y = c[2] }

\* C8: with restore mode on, frame A's restore buffer holds exactly one
\* erase-marker (clear colour, no edge flags) at every coordinate of an opaque
\* pixel of A that the following frame B lacks, and none at a coordinate both
\* have; with restore mode off every restore buffer stays empty.
C8_RestoreDiff ==
    pre.pc = "done" =>
      \A k \in 1 .. Len(pre.frames) :
        IF restoreMode
        THEN /\ \A c \in Opaque(k) \ Opaque(Follower(k)) : Cardinality(MarkersAt(k, c)) = 1
             /\ \A c \in Opaque(k) \cap Opaque(Follower(k)) : MarkersAt(k, c) = {}
             /\ \A m \in 1 .. Len(pre.frames[k].restore) :
                  /\ pre.frames[k].restore[m].value = RESTORE_DEBUG_COLOR
                  /\ pre.frames[k].restore[m].edges = 0
                  /\ << pre.frames[k].restore[m].x, pre.frames[k].restore[m].y >>
                        \in Opaque(k) \ Opaque(Follower(k))
        ELSE pre.frames[k].restore = <<>>

\* C8 witness: three frames preprocessed, the last one vacating a pixel that
\* the first lacks and keeping one that the first has
C8_Witness ==
    /\ pre.pc = "done" /\ restoreMode /\ Len(pre.frames) = 3
    /\ Len(pre.frames[3].restore) = 1 /\ Len(pre.frames[3].data) = 2
    /\ Len(pre.frames[1].restore) = 2

\* C9: for every frame sequence of length N >= 1 the restore pass completes
\* without fault and diffs frame i against frame (i+1) mod N; a single frame is
\* diffed against itself and gets an empty restore buffer.
C9_WrapAround ==
    /\ pre.pc /= "panic"
    /\ pre.pc = "done" /\ restoreMode =>
         \A k \in 1 .. Len(pre.frames) :
            pre.frames[k].restore =
                RestoreMarkers(pre.frames[k].data, pre.frames[Follower(k)])

\* the coordinates of a buffer
CoordSet(buffer) == { << buffer[i].x, buffer[i].y >> : i \in 1 .. Len(buffer) }

\* C10: after calc_edges a pixel at (x, y) has Top iff the frame has no pixel at
\* (x, y-1), Right iff none at (x+1, y), Bottom iff none at (x, y+1), Left iff
\* none at (x-1, y), whatever the order of the buffer; nothing else of the
\* buffer changes; an isolated pixel has all four flags, and the pixels of a
\* full 2x2 frame have their two outer flags.
C10_EdgeFlags ==
    edge.pc = "done" =>
      LET S == CoordSet(edge.input)
          b == edge.buffer
      IN /\ Len(b) = Len(edge.input)
         /\ \A i \in 1 .. Len(b) :
              LET x == b[i].x
                  y == b[i].y
              IN /\ b[i] = [edge.input[i] EXCEPT !.edges = b[i].edges]
                 /\ b[i].edges \in 0 .. 15
                 /\ has_edge(b[i].edges, EdgeTop) <=> << x, y - 1 >> \notin S
                 /\ has_edge(b[i].edges, EdgeRight) <=> << x + 1, y >> \notin S
                 /\ has_edge(b[i].edges, EdgeBottom) <=> << x, y + 1 >> \notin S
                 /\ has_edge(b[i].edges, EdgeLeft) <=> << x - 1, y >> \notin S
                 /\ S \cap { << x, y - 1 >>, << x + 1, y >>, << x, y + 1 >>, << x - 1, y >> } = {}
                      => b[i].edges = 15
                 /\ S = { << 0, 0 >>, << 1, 0 >>, << 0, 1 >>, << 1, 1 >> } =>
                      b[i].edges = (IF y = 0 THEN EdgeTop ELSE EdgeBottom)
                                   + (IF x = 0 THEN EdgeLeft ELSE EdgeRight)

\* C10 witness: calc_edges has run on a full 2x2 frame that is not in row-major order
C10_Witness ==
    /\ edge.pc = "done"
    /\ CoordSet(edge.buffer) = { << 0, 0 >>, << 1, 0 >>, << 0, 1 >>, << 1, 1 >> }
    /\ edge.buffer[1].x = 1 /\ edge.buffer[1].y = 1 /\ edge.buffer[1].edges = 6

\* the buffer indices link c has indexed so far
ShardOf(c) == { idx \in 0 .. (part.len - 1) : part.handled[idx + 1] = << c >> }

\* C1: link i of N indexes exactly the indices i, i+N, i+2N, ... below L; every
\* index is indexed once, by one link; the shards cover the buffer, hold
\* floor(L/N) or ceil(L/N) indices, and no link indexes at or past L.
C1_Striped ==
    part.pc /= "off" =>
      /\ ~part.oob /\ part.pc /= "panic"
      /\ \A idx \in 0 .. (part.len - 1) :
           \/ part.handled[idx + 1] = <<>>
           \/ part.handled[idx + 1] = << idx % part.num_conns >>
      /\ part.pc = "done" =>
           /\ \A idx \in 0 .. (part.len - 1) :
                part.handled[idx + 1] = << idx % part.num_conns >>
           /\ \A c \in 0 .. (part.num_conns - 1) :
                /\ ShardOf(c) = { idx \in 0 .. (part.len - 1) :
                                    \E k \in 0 .. part.len : idx = c + (k * part.num_conns) }
                /\ \/ Cardinality(ShardOf(c)) = part.len \div part.num_conns
                   \/ /\ Cardinality(ShardOf(c)) = (part.len \div part.num_conns) + 1
                      /\ part.len % part.num_conns /= 0
           /\ part.num_conns = 3 /\ part.len = 8 =>
                ShardOf(0) = {0, 3, 6} /\ ShardOf(1) = {1, 4, 7} /\ ShardOf(2) = {2, 5}

\* C1 witness: 3 links have worked through an 8-pixel buffer
C1_Witness == part.pc = "done" /\ part.num_conns = 3 /\ part.len = 8

Drawing == engine.pc \in {"send", "join"}
Buf(k) == [kind |-> "buffer", upd |-> k]
Res(k) == [kind |-> "restore", upd |-> k]
Last(s) == s[Len(s)]

\* the buffer indices of link c's shard of a buffer of length L, in order
RECURSIVE ShardSeq(_, _, _)
ShardSeq(L, n, from) == IF from >= L THEN <<>> ELSE <<from>> \o ShardSeq(L, n, from + n)

\* C2: a link never aborts or skips a pixel: after a failed write it reconnects
\* and retries the same pixel's command, whatever fails (the reconnection
\* included), and it replies only after every pixel of its shard has been
\* written, in shard order.
C2_NeverAborts ==
    [][\A c \in Links :
          /\ link[c].pc = "reconnect" =>
                /\ link'[c].pc \in {"reconnect", "write"}
                /\ link'[c].i = link[c].i /\ link'[c].job = link[c].job
          /\ oneshot[c].st = "open" /\ oneshot'[c].st = "sent" =>
                written[c] = ShardSeq(link[c].job.len, NumLinks, c)]_vars

\* C3: the error count a link reports for a cycle is the number of failed write
\* attempts it made in that cycle, counted from 0.
C3_ErrorCount ==
    [][\A c \in Links :
          oneshot[c].st = "open" /\ oneshot'[c].st = "sent" =>
             /\ oneshot'[c].val = wfail[c]
             /\ written[c] = ShardSeq(link[c].job.len, NumLinks, c)]_vars

\* C3 witness: a link replied 1 after one failed and one successful write
C3_Witness ==
    \E c \in Links : oneshot[c].st = "sent" /\ oneshot[c].val = 1 /\ nfail = 1
                     /\ engine.cur.len = 1

\* C4 as stated: the sink's counter always equals the failed write attempts of
\* all completed cycles.
C4_SinkAlwaysEqual == errors = doneFailed

\* C4 amended: in each draw cycle every link is sent the cycle's buffer at most
\* once, exactly one Stats message is forwarded and only after each of the N
\* links was sent the buffer once and replied once; its value is the sum of the
\* replies, which is the number of failed write attempts of the cycle; the
\* sink's counter plus the Stats values still queued equals the failed write
\* attempts of all completed cycles.
C4_Rendezvous ==
    /\ [](/\ errors + SumSeq(stats_rx) = doneFailed
          /\ \A c \in Links :
               /\ cyc.sent[c] <= 1 /\ cyc.replied[c] <= cyc.sent[c]
               /\ \A k \in 1 .. Len(conn_rx[c]) : conn_rx[c][k] = engine.cur
               /\ link[c].job /= None => link[c].job = engine.cur)
    /\ [][Len(stats_rx') > Len(stats_rx) =>
            /\ \A c \in Links : cyc.sent[c] = 1 /\ cyc.replied[c] = 1
            /\ Last(stats_rx') = cyc.rsum
            /\ Last(stats_rx') = cycFail
            /\ Len(stats_rx') = Len(stats_rx) + 1]_vars

\* C4 witness: the sink has consumed the Stats of a cycle with failed writes
C4_Witness == errors > 0 /\ stats_rx = <<>> /\ errors = doneFailed

\* the draw cycles so far, the one in flight included
FullLog == IF Drawing THEN Logged(engine.cur) ELSE log

\* C5: the restore buffer of update k-1 is drawn in exactly one cycle, after the
\* cycles of buffer k-1 and before the first cycle of buffer k; the restore
\* buffer of update k is held until update k+1 is consumed; without a restore
\* buffer there is no restore cycle.
C5_RestoreThenSwap ==
    /\ \A p \in 1 .. Len(FullLog) :
         LET e == FullLog[p] IN
         /\ p = 1 => e = Buf(1)
         /\ e.kind = "buffer" /\ p > 1 =>
               IF restoreMode
               THEN p > 2 /\ FullLog[p - 1] = Res(e.upd - 1) /\ FullLog[p - 2] = Buf(e.upd - 1)
               ELSE FullLog[p - 1] = Buf(e.upd - 1)
         /\ e.kind = "restore" =>
               /\ restoreMode /\ p > 1 /\ FullLog[p - 1] = Buf(e.upd)
               /\ engine.new_buffer.upd = e.upd + 1 \/ engine.buffer.upd > e.upd
    /\ engine.buffer.upd > 0 =>
          IF restoreMode
          THEN engine.restore.kind = "restore" /\ engine.restore.upd = engine.buffer.upd
          ELSE engine.restore = None

\* C5 witness: two handoffs with restore buffers have happened
C5_Witness == restoreMode /\ log = << Buf(1), Res(1), Buf(2), Res(2), Buf(3) >>

\* main's call of update_buffer, whatever it returns
Submit ==
    \/ \E len \in 0 .. MaxLen, rlen \in 0 .. MaxRestoreLen : update_buffer(len, rlen)
    \/ update_buffer_err

\* C6: update_buffer is enabled in every state of the engine (idle, waiting,
\* sending, joining, dead) and with updates already queued.
C6_NonBlocking ==
    mainPc = "run" /\ submitted < MaxUpdates /\ Len(mpsc_rx) < MaxQueue => ENABLED Submit

\* C6 witness: update 3 was queued behind update 2 while update 1 was being drawn
C6_Witness ==
    /\ engine.pc = "join" /\ engine.cur = engine.buffer /\ engine.buffer.upd = 1
    /\ Len(mpsc_rx) = 2 /\ submitted = 3

\* the engine enters draw with the current buffer
DrawStart == engine.pc = "send" /\ engine.next = 0 /\ engine.cur = engine.buffer

\* C7 as stated: once a buffer is current, whatever its contents, the engine
\* never waits for an update while none is pending.
C7_AnyBuffer == engine.pc = "recv" /\ engine.buffer.upd > 0 => mpsc_rx /= <<>>

\* C7 amended: once a non-empty buffer is current the engine never waits for an
\* update while none is pending, and under fair scheduling it starts a cycle of
\* the current buffer again and again until the next update arrives.
C7_Reassert ==
    /\ [](engine.pc = "recv" /\ engine.buffer.len > 0 => mpsc_rx /= <<>>)
    /\ [](engine.buffer.len > 0 /\ mpsc_rx = <<>> => <>(DrawStart \/ mpsc_rx /= <<>>))

\* C7 witness: a cycle of the current buffer starts right after one completed
C7_Witness ==
    /\ DrawStart /\ engine.buffer.len > 0 /\ mpsc_rx = <<>>
    /\ log /= <<>> /\ Last(log) = Buf(engine.buffer.upd)


\* buffer b has the pixels of buffer a, in a's order, with any colours
SameShape(a, b) ==
    /\ Len(b) = Len(a)
    /\ \A i \in 1 .. Len(a) : b[i] = [a[i] EXCEPT !.value = b[i].value]

\* C11: one invocation of Blend or Rainbow leaves the buffer's length, the
\* order, the (x, y) and the edge flags of its pixels and the restore buffer
\* (present or absent) as they were; so does any sequence of invocations, on
\* buffers already filtered: only colour values change.
C11_ColourOnly ==
    /\ [](flt.pc = "run" =>
            /\ SameShape(flt.input, flt.buffer)
            /\ flt.restore = flt.restore_in)
    /\ [][flt.pc = "run" => SameShape(flt.buffer, flt'.buffer) /\ flt'.restore = flt.restore]_vars

\* C11 witness: Rainbow ran on a buffer Blend had filtered, with a restore
\* buffer present; the colours changed
C11_Witness ==
    /\ flt.pc = "run" /\ flt.calls = 3 /\ flt.rainbow.frame = 2
    /\ Len(flt.buffer) = 2 /\ flt.restore.some /\ flt.restore.vec /= <<>>
    /\ \A i \in 1 .. 2 : flt.buffer[i].value /= flt.input[i].value


\* a token without its optional leading '+'
Unsigned(tok) == IF tok /= <<>> /\ tok[1] = "+" THEN SubSeq(tok, 2, Len(tok)) ELSE tok

\* a token that is an unsigned 32-bit decimal number
IsNumber(tok) ==
    /\ Unsigned(tok) /= <<>>
    /\ \A i \in 1 .. Len(Unsigned(tok)) : Unsigned(tok)[i] \in Digits
    /\ FitsU32(Unsigned(tok))

\* the line has exactly two spaces, at i and j
TwoSpaces(line, i, j) ==
    i < j /\ \A k \in 1 .. Len(line) : line[k] = " " <=> k \in { i, j }

\* the line is a first token followed by exactly two tokens that are numbers
WellFormed(line) ==
    \E i, j \in 1 .. Len(line) :
        /\ TwoSpaces(line, i, j)
        /\ IsNumber(SubSeq(line, i + 1, j - 1))
        /\ IsNumber(SubSeq(line, j + 1, Len(line)))

\* the numbers of a well-formed line
SizeOf(line) ==
    LET p == CHOOSE q \in (1 .. Len(line)) \X (1 .. Len(line)) : TwoSpaces(line, q[1], q[2])
    IN << DecVal(Unsigned(SubSeq(line, p[1] + 1, p[2] - 1))),
          DecVal(Unsigned(SubSeq(line, p[2] + 1, Len(line)))) >>

SizeLine == << "S", "I", "Z", "E", " ", "8", "0", "0", " ", "6", "0", "0" >>

\* C12: fetch_canvas_size returns (width, height) exactly when the bytes before
\* the newline are ASCII and form a line of a first token followed by exactly
\* two tokens that are unsigned integers, whose values it returns ('SIZE 800
\* 600' gives (800, 600)); a non-ASCII byte, the end of the stream before the
\* newline, another number of tokens ('BADX') or a non-numeric token give an
\* error and no canvas size.
C12_SizeHandshake ==
    /\ [](/\ hs.pc = "ok" =>
               /\ WellFormed(hs.answer) /\ hs.canvas_size = SizeOf(hs.answer)
               /\ hs.answer = SizeLine => hs.canvas_size = << 800, 600 >>
          /\ hs.pc = "err" => hs.canvas_size = << >>
          /\ hs.pc = "err" /\ hs.err \in { "invalid answer", "parse" } =>
               ~WellFormed(hs.answer))
    /\ [][hs.pc = "read" /\ hs'.pc /= "read" =>
            \/ hs'.pc = "ok" /\ hs'.answer = hs.answer /\ hs'.err = ""
            \/ hs'.pc = "err" /\ hs'.err \in { "non ascii", "early EOF", "io",
                                               "invalid answer", "parse" }]_vars
    /\ [][hs.pc = "read" /\ hs.answer = << "B", "A", "D", "X" >> /\ hs'.answer = hs.answer =>
            hs'.pc \in { "read", "err" }]_vars

\* C12 witness: the reply 'SIZE 800 600' was read and gave (800, 600)
C12_Witness == hs.pc = "ok" /\ hs.answer = SizeLine /\ hs.canvas_size = << 800, 600 >>


\* the step the engine takes from the top of its loop
LoopStep == engine.pc = "loop" /\ engine'.pc /= "loop"

\* the engine takes an update from its queue
Consume == Len(mpsc_rx') < Len(mpsc_rx)

\* C13 as stated: at the top of the loop the engine waits for an update iff one
\* is pending or no buffer has ever been set; otherwise it draws the current buffer.
C13_EverSet ==
    [][LoopStep =>
         IF mpsc_rx /= <<>> \/ engine.buffer.upd = 0
         THEN engine'.pc = "recv"
         ELSE engine'.pc = "send" /\ engine'.cur = engine.buffer]_vars

\* C13 amended: at the top of the loop the engine waits for an update iff one is
\* pending or the current buffer is empty (never set, or set to a buffer without
\* pixels); it then consumes exactly one update before it draws; otherwise it
\* consumes none and draws the current buffer. Updates are consumed nowhere
\* else, and no draw cycle starts before the first update has been consumed.
C13_LoopStep ==
    /\ [][LoopStep =>
            /\ mpsc_rx' = mpsc_rx
            /\ IF mpsc_rx /= <<>> \/ engine.buffer.len = 0
               THEN engine'.pc = "recv"
               ELSE engine'.pc = "send" /\ engine'.cur = engine.buffer]_vars
    /\ [][Consume =>
            /\ engine.pc = "recv" /\ engine'.pc = "send"
            /\ mpsc_rx' = Tail(mpsc_rx)]_vars
    /\ [][engine.pc = "recv" /\ engine'.pc /= "recv" /\ engine'.pc /= "dead" => Consume]_vars
    /\ [](Drawing => submitted - Len(mpsc_rx) >= 1 /\ engine.cur.upd >= 1)

\* C13 witness: the engine waits for an update with an empty buffer current and
\* none pending, after it drew that buffer once
C13_Witness ==
    /\ engine.pc = "recv" /\ mpsc_rx = <<>>
    /\ engine.buffer.upd = 2 /\ engine.buffer.len = 0
    /\ log /= <<>> /\ Last(log) = Buf(2)


\* the pixel lies on the canvas of the Bounce filter
OnCanvas(px) ==
    /\ 0 <= px.x /\ px.x < bnc.self.screen_x
    /\ 0 <= px.y /\ px.y < bnc.self.screen_y

\* C14: for a sprite whose bounding box fits in the canvas and starts inside it
\* at any placement offset, after every Bounce invocation every translated
\* pixel is at a valid canvas coordinate.
C14_OnCanvas ==
    bnc.pc = "run" => \A i \in 1 .. Len(bnc.buffer) : OnCanvas(bnc.buffer[i])


\* the x pixel i of the frame would have after the shift of the last Glitch invocation
Shifted(i) == gl.frame[i].x + gl.offs[i]

\* the pixels of the frame whose shifted x lies on the canvas
Fitting == { i \in 1 .. Len(gl.frame) : Shifted(i) >= 0 /\ Shifted(i) < gl.self.screen_x }

\* C15: after a Glitch invocation the buffer holds the pixels whose shifted x
\* lies inside [0, canvas_width), each shifted by its row's offset, and none of
\* the pixels whose shifted x lies outside.
C15_Dropped ==
    gl.pc = "run" =>
      /\ Len(gl.buffer) = Cardinality(Fitting)
      /\ \A k \in 1 .. Len(gl.buffer) :
           \E i \in Fitting : gl.buffer[k] = [gl.frame[i] EXCEPT !.x = Shifted(i)]

\* C16: the invocation counter grows by 1 per invocation; invocations 4j+1 ..
\* 4j+4 run with the same seed and invocation 4j+5 with that seed plus 1; the
\* invocations of such a group of four have the same row offsets on the same buffer.
C16_SeedSchedule ==
    /\ [](gl.pc \in { "new", "run" } =>
            /\ gl.self.index = Len(gl.seeds)
            /\ \A k, l \in 1 .. Len(gl.seeds) :
                 /\ (k - 1) \div 4 = (l - 1) \div 4 =>
                       gl.seeds[k] = gl.seeds[l] /\ gl.rows[k] = gl.rows[l]
                 /\ (k - 1) \div 4 = ((l - 1) \div 4) + 1 => gl.seeds[k] = gl.seeds[l] + 1)
    /\ [][gl.pc \in { "new", "run" } =>
            /\ gl'.self.index = gl.self.index + 1
            /\ gl'.self.seed = gl.self.seed + (IF gl.self.index % 4 = 0 THEN 1 ELSE 0)
            /\ gl'.self.seed = Last(gl'.seeds)]_vars

\* C16 witness: nine invocations, the fifth and the ninth with other row
\* offsets than the one before
C16_Witness ==
    /\ gl.pc = "run" /\ gl.self.index = 9
    /\ gl.rows[4] /= gl.rows[5] /\ gl.rows[8] /= gl.rows[9]
    /\ gl.seeds[9] = gl.seeds[1] + 2


\* C17: update k (k = 1, 2, ...) is built from frame (k - 1) mod N: the frames
\* are taken in the order 0, 1, ..., N-1, 0, 1, ...; each update is a clone of
\* that frame (the frames themselves stay as they are) that went through every
\* configured filter once, in the order Rainbow, Bounce, Blend, Glitch; its
\* restore buffer is present iff restore mode is on, and with restore mode off
\* the engine holds and draws no restore buffer.
C17_Order ==
    /\ [](sch.pc = "run" =>
            /\ Len(sch.sent) = submitted
            /\ sch.pos = submitted % Len(sch.frames)
            /\ \A k \in 1 .. Len(sch.sent) :
                 /\ sch.sent[k].frame = (k - 1) % Len(sch.frames)
                 /\ sch.sent[k].len = sch.frames[sch.sent[k].frame + 1].len
                 /\ sch.sent[k].applied = sch.filters
                 /\ sch.sent[k].restore = restoreMode
            /\ \A i, j \in 1 .. Len(sch.filters) :
                 i < j => \E a, b \in 1 .. Len(FilterOrder) :
                             a < b /\ FilterOrder[a] = sch.filters[i]
                                   /\ FilterOrder[b] = sch.filters[j]
            /\ \A q \in 1 .. Len(mpsc_rx) : (mpsc_rx[q].restore /= None) <=> restoreMode
            /\ ~restoreMode =>
                 /\ engine.restore = None /\ engine.cur.kind /= "restore"
                 /\ \A p \in 1 .. Len(log) : log[p].kind /= "restore")
    /\ [][sch.pc = "run" => sch'.frames = sch.frames /\ sch'.filters = sch.filters]_vars

\* C17 witness: two frames, all four filters; the third update was built from
\* frame 0 again and the engine has drawn it
C17_Witness ==
    /\ sch.pc = "run" /\ Len(sch.frames) = 2 /\ Len(sch.filters) = 4
    /\ Len(sch.sent) = 3 /\ sch.sent[3].frame = 0 /\ sch.sent[2].frame = 1
    /\ log /= <<>> /\ Last(log) = Buf(3)


\* a link task has terminated and the engine is in a draw cycle, or has
\* terminated itself: the job cannot be sent to the link or its reply never arrives
Faulted == engine.pc \in { "send", "join", "dead" } /\ \E c \in Links : link[c].pc = "dead"

\* C18: once a link has terminated under a draw cycle, that cycle forwards no
\* Stats message and completes no further, the engine starts no other cycle and
\* hands no job to any link after it failed, and the process eventually ends
\* with the error main's update_buffer returns.
C18_ProcessFault ==
    /\ [][Faulted =>
            /\ Faulted'
            /\ Len(stats_rx') <= Len(stats_rx)
            /\ log' = log
            /\ engine'.cur = engine.cur
            /\ engine.pc = "join" => engine'.pc \in { "join", "dead" }
            /\ engine.pc = "dead" =>
                 /\ engine'.pc = "dead"
                 /\ \A c \in Links : Len(conn_rx'[c]) <= Len(conn_rx[c])]_vars
    /\ [][mainPc = "run" /\ mainPc' = "exited" => engine.pc = "dead"]_vars
    /\ (Faulted ~> mainPc = "exited")

\* C18 witness: the process ended after a link was lost in the second cycle of
\* update 1, with update 2 queued and never drawn
C18_Witness ==
    /\ mainPc = "exited" /\ engine.pc = "dead" /\ engine.cur = engine.buffer
    /\ log = << Buf(1) >> /\ mpsc_rx /= <<>>
    /\ \E c \in Links : link[c].pc = "dead" /\ oneshot[c].st = "dropped"


\* no link has written a pixel of a job yet, and no cycle has completed
NothingDrawn == log = <<>> /\ \A d \in Links : written[d] = <<>> /\ link[d].job = None

\* C19 as stated: the failure of a Canvas Link's initial connection comes
\* before streaming: at the step where the connection fails no update has
\* been submitted to the engine and no link has taken a job or written a
\* draw command.
C19_FatalAtStartup ==
    [][\A c \in Links :
         link[c].pc = "connect" /\ link'[c].pc = "dead" =>
            submitted = 0 /\ NothingDrawn]_vars


\* the jobs of link c that are in flight: queued in its channel or held by its task
InFlight(c) == Len(conn_rx[c]) + (IF link[c].job /= None THEN 1 ELSE 0)

\* no link has a job queued or in its hands, and no reply is outstanding
AllCollected ==
    \A c \in Links : InFlight(c) = 0 /\ oneshot[c].st = "none"

\* the engine enters draw: from the loop, after recv, or after a restore cycle
CycleStart == engine'.pc = "send" /\ engine'.next = 0 /\ (engine.pc /= "send" \/ engine.next /= 0)

\* C20: at most one draw cycle is in flight. A cycle starts only when no link
\* has a job queued or in its hands and no reply of the previous cycle is
\* outstanding; every link has at most one job in flight, and it is the buffer
\* of the cycle in flight; the buffer of the cycle does not change while a job
\* is in flight, and a link writes pixels only of that buffer.
C20_OneCycle ==
    /\ [](\A c \in Links :
            /\ InFlight(c) <= 1
            /\ InFlight(c) = 1 =>
                 /\ engine.pc \in { "send", "join", "dead" }
                 /\ engine.cur /= None
                 /\ (conn_rx[c] /= <<>> => Head(conn_rx[c]) = engine.cur)
                 /\ (link[c].job /= None => link[c].job = engine.cur))
    /\ [][CycleStart => AllCollected]_vars
    /\ [][engine'.cur /= engine.cur => AllCollected]_vars
    /\ [][\A c \in Links :
            Len(written'[c]) > Len(written[c]) =>
               /\ link[c].job = engine.cur /\ engine'.cur = engine.cur
               /\ link[c].job.len > Last(written'[c])]_vars

\* C20 witness: after the cycle of update 1 completed, a link writes pixels of
\* the next cycle, whose buffer is another one
C20_Witness ==
    /\ log /= <<>> /\ log[1].upd = 1
    /\ engine.pc = "join" /\ engine.cur.upd = 2
    /\ \E c \in Links : link[c].job = engine.cur /\ written[c] /= <<>>


\* the updates whose pixel buffer was drawn in a complete cycle, in the order of the cycles
DrawnUpdates == LET IsBuf(e) == e.kind = "buffer" IN
                LET bs == SelectSeq(log, IsBuf) IN [p \in 1 .. Len(bs) |-> bs[p].upd]

\* the update the engine has taken last (0: none yet)
Taken == IF engine.new_buffer /= None THEN engine.new_buffer.upd ELSE engine.buffer.upd

\* the engine takes an update from its channel
Consume21 == Len(mpsc_rx') < Len(mpsc_rx)

\* C21: no update is skipped or coalesced. The channel holds the submitted
\* updates not yet taken, in the order of submission; the engine takes exactly
\* the next one, and only after the buffer it took before was drawn in a
\* complete cycle; the pixel buffers are drawn in the order 1, 2, 3, ..; and in
\* a fair run without lost links every submitted update is eventually drawn in
\* a complete cycle (again and again all updates submitted so far have been
\* drawn; submitted never decreases, so update k is drawn after it is submitted).
C21_NoSkip ==
    /\ [](/\ Len(mpsc_rx) = submitted - Taken
          /\ \A p \in 1 .. Len(mpsc_rx) : mpsc_rx[p].buffer.upd = Taken + p
          /\ \A p \in 1 .. Len(DrawnUpdates) : DrawnUpdates[p] = p
          /\ Len(DrawnUpdates) \in { engine.buffer.upd - 1, engine.buffer.upd }
          /\ engine.buffer.upd > 0 => Len(DrawnUpdates) >= engine.buffer.upd - 1)
    /\ [][Consume21 =>
            /\ mpsc_rx' = Tail(mpsc_rx)
            /\ Taken' = Taken + 1
            /\ Taken' = Head(mpsc_rx).buffer.upd
            /\ Taken > 0 => Len(DrawnUpdates) = Taken]_vars
    /\ []<>(Len(DrawnUpdates) = submitted)

\* C21 witness: updates 2 and 3 were queued while update 1 was drawn, and all
\* three were drawn in complete cycles, in order
C21_Witness ==
    /\ DrawnUpdates = << 1, 2, 3 >> /\ submitted = 3 /\ mpsc_rx = <<>>
    /\ engine.pc = "join" /\ engine.cur = engine.buffer /\ engine.buffer.upd = 3


\* C22: with restore active, after every Bounce invocation every erase marker
\* pushed to the restore buffer has coordinates that did not underflow below 0
\* and lie inside the canvas.
C22_MarkersInRange ==
    bnc.pc = "run" /\ bnc.restore.some =>
       \A i \in 1 .. Len(bnc.restore.vec) : OnCanvas(bnc.restore.vec[i])


RECURSIVE Lines(_, _, _)
\* the commands of the link's pixels number a .. b - 1 of its job, one after the other
Lines(w, a, b) ==
    IF a >= b THEN <<>>
    ELSE Command(w.buffer[Idx(a, NumLinks, w.conn_id) + 1]) \o Lines(w, a + 1, b)

\* C23: whenever the link is between two pixels, the bytes its connection
\* accepted are the whole command lines of the pixels it advanced past on that
\* connection; a write that accepted only a prefix is not a written pixel.
C23_WholeLines ==
    wire.pc \in { "for", "done" } => wire.tcp_tx = Lines(wire, wire.from, wire.i)

====
